---------------------------- MODULE Spec2Model ----------------------------
(***************************************************************************)
(* A model of patma.py: the pattern nodes (ConstantPattern,                *)
(* AlternativesPattern, VariablePattern, AnnotatedPattern, SequencePattern,*)
(* MappingPattern, InstancePattern, WalrusPattern) and their three         *)
(* operations match, bindings and translate.                               *)
(*                                                                         *)
(* Python values are records [k, s, n, c]: k is the name of the value's    *)
(* class, n an integer payload, s a string payload and c the sequence of   *)
(* the value's parts (items, characters, dict entries, attributes).        *)
(***************************************************************************)
EXTENDS Integers, Sequences, FiniteSets, TLC

(***************************************************************************)
(* Bounds of the model.                                                    *)
(***************************************************************************)
\* The largest number of sub-patterns given to one pattern node.
MaxArity == 2
\* The largest int used as a constant or as a candidate.
MaxInt == 1
\* The largest number of frames on the stack when translate is called.
MaxFrames == 1

(***************************************************************************)
(* Python values.                                                          *)
(***************************************************************************)
Cell(k, s, n, c) == [k |-> k, s |-> s, n |-> n, c |-> c]

NoneV == Cell("NoneType", "", 0, <<>>)
IntV(i) == Cell("int", "", i, <<>>)
\* bool is a subclass of int; True is 1 and False is 0.
BoolV(b) == Cell("bool", "", IF b THEN 1 ELSE 0, <<>>)
\* A float is kept in halves: FloatV(2) is 1.0 and FloatV(3) is 1.5.
FloatV(h) == Cell("float", "", h, <<>>)
\* A str is its sequence of characters, each a code.
Chr(code) == Cell("chr", "", code, <<>>)
StrV(codes) == Cell("str", "", 0, [i \in 1..Len(codes) |-> Chr(codes[i])])
\* bytes and bytearray are their sequences of ints.
BytesV(codes) == Cell("bytes", "", 0, [i \in 1..Len(codes) |-> IntV(codes[i])])
ByteArrayV(codes) ==
    Cell("bytearray", "", 0, [i \in 1..Len(codes) |-> IntV(codes[i])])
ListV(items) == Cell("list", "", 0, items)
TupleV(items) == Cell("tuple", "", 0, items)
\* A dict with str keys: one entry per key, the key in s, the value in c[1].
Entry(key, v) == Cell("entry", key, 0, <<v>>)
DictV(entries) == Cell("dict", "", 0, entries)
\* An object of a user class: one attr cell per attribute that is set.
Attr(name, v) == Cell("attr", name, 0, <<v>>)
ObjV(cls, attrs) == Cell(cls, "", 0, attrs)

\* The classes of the model.  Point is a dataclass with the fields x and y
\* (like MyClass of test_patma.py); Plain is a class that is no dataclass.
DataclassFields(cls) == IF cls = "Point" THEN <<"x", "y">> ELSE <<>>
IsDataclass(cls) == cls = "Point"

\* issubclass(a, b) for the classes of the model.
IsSubclass(a, b) ==
    \/ a = b
    \/ b = "object"
    \/ a = "bool" /\ b = "int"

\* isinstance(x, t)
IsInstance(x, t) == IsSubclass(x.k, t)

\* isinstance(x, collections.abc.Sequence)
IsAbcSequence(x) == x.k \in {"list", "tuple", "str", "bytes", "bytearray"}

\* isinstance(x, typing.Mapping)
IsAbcMapping(x) == x.k = "dict"

IsNumber(x) == x.k \in {"int", "bool", "float"}

\* The numeric value of a number, in halves.
Num(x) == IF x.k = "float" THEN x.n ELSE 2 * x.n

\* x == y of Python, for x any value and y a scalar (a pattern's constant):
\* numbers compare by value across int, bool and float; values of other
\* classes are equal when they are of one class with equal contents.
PyEq(x, y) ==
    IF IsNumber(x) /\ IsNumber(y) THEN Num(x) = Num(y)
    ELSE IF IsNumber(x) \/ IsNumber(y) THEN FALSE
    ELSE x.k = y.k /\ x = y

\* len(x) and x[i] (i counted from 0) of a sequence.
PyLen(x) == Len(x.c)
GetItem(x, i) ==
    IF x.k = "str" THEN Cell("str", "", 0, <<x.c[i + 1]>>) ELSE x.c[i + 1]

\* key in x and x[key] of a dict.
HasKey(x, key) == \E i \in 1..Len(x.c) : x.c[i].s = key
GetKey(x, key) == (CHOOSE e \in {x.c[i] : i \in 1..Len(x.c)} : e.s = key).c[1]

\* hasattr(x, name) and getattr(x, name) of an object.
HasAttr(x, name) == \E i \in 1..Len(x.c) : x.c[i].k = "attr" /\ x.c[i].s = name
GetAttr(x, name) ==
    (CHOOSE e \in {x.c[i] : i \in 1..Len(x.c)} : e.k = "attr" /\ e.s = name).c[1]


(***************************************************************************)
(* Pattern nodes.  A node is a record [tag, name, cls, const, pats, kwn,   *)
(* kwp]: tag is the node's class; pats are the sub-patterns of an          *)
(* AlternativesPattern or SequencePattern, the one inner pattern of an     *)
(* AnnotatedPattern or WalrusPattern and the posargs of an InstancePattern;*)
(* kwn and kwp are the keys and the patterns, in insertion order, of a     *)
(* MappingPattern's patterns and of an InstancePattern's kwargs.           *)
(***************************************************************************)
Node(tag, name, cls, const, pats, kwn, kwp) ==
    [tag |-> tag, name |-> name, cls |-> cls, const |-> const,
     pats |-> pats, kwn |-> kwn, kwp |-> kwp]

ConstantPattern(constant) ==
    Node("ConstantPattern", "", "", constant, <<>>, <<>>, <<>>)
AlternativesPattern(patterns) ==
    Node("AlternativesPattern", "", "", NoneV, patterns, <<>>, <<>>)
VariablePattern(name) ==
    Node("VariablePattern", name, "", NoneV, <<>>, <<>>, <<>>)
AnnotatedPattern(pattern, cls) ==
    Node("AnnotatedPattern", "", cls, NoneV, <<pattern>>, <<>>, <<>>)
SequencePattern(patterns) ==
    Node("SequencePattern", "", "", NoneV, patterns, <<>>, <<>>)
MappingPattern(keys, patterns) ==
    Node("MappingPattern", "", "", NoneV, <<>>, keys, patterns)
InstancePattern(cls, posargs, kwnames, kwpatterns) ==
    Node("InstancePattern", "", cls, NoneV, posargs, kwnames, kwpatterns)
WalrusPattern(name, pattern) ==
    Node("WalrusPattern", name, "", NoneV, <<pattern>>, <<>>, <<>>)

\* InstancePattern(cls, posargs, kwargs) as the front-end calls it: __init__
\* stores its three arguments and checks nothing, so the call returns the
\* node.  The outcome is [st, exc, node], st "ok" or "raise".
InstancePattern_init_checked(cls, posargs, kwnames, kwpatterns) ==
    IF \/ Len(posargs) > Len(DataclassFields(cls))
       \/ \E i \in 1..Len(posargs) : \E j \in 1..Len(kwnames) :
            DataclassFields(cls)[i] = kwnames[j]
    THEN [st |-> "raise", exc |-> "MalformedPattern",
          node |-> InstancePattern(cls, <<>>, <<>>, <<>>)]
    ELSE [st |-> "ok", exc |-> "",
          node |-> InstancePattern(cls, posargs, kwnames, kwpatterns)]
InstancePattern_init(cls, posargs, kwnames, kwpatterns) ==
    [st |-> "ok", exc |-> "",
     node |-> InstancePattern(cls, posargs, kwnames, kwpatterns)]

(***************************************************************************)
(* match.  A call's outcome is a record [st, b, exc, ev]: st is "match"    *)
(* (a dict b was returned), "none" (None was returned) or "raise" (the     *)
(* exception exc left the call); ev lists, in call order, the nodes whose  *)
(* match method was called, each as its path of child indexes from the     *)
(* root (an InstancePattern's kwargs are counted after its posargs).       *)
(***************************************************************************)
NoBindings == <<>>
Matched(b, ev) == [st |-> "match", b |-> b, exc |-> "", ev |-> ev]
NotMatched(ev) == [st |-> "none", b |-> NoBindings, exc |-> "", ev |-> ev]
Raised(exc, ev) == [st |-> "raise", b |-> NoBindings, exc |-> exc, ev |-> ev]

\* The paths of a sub-call, seen from the caller whose i-th child it is.
Below(i, ev) == [j \in 1..Len(ev) |-> <<i>> \o ev[j]]

\* dict.update: the entries of new replace those of old.
Update(old, new) == new @@ old

\* _is_instance: like isinstance() but pretend int subclasses float.
_is_instance(x, t) == IsInstance(x, t) \/ (t = "float" /\ IsInstance(x, "int"))

\* type(x) of a value.
TypeOf(x) == x.k

RECURSIVE match(_, _)
RECURSIVE AlternativesLoop(_, _, _, _)
RECURSIVE SequenceLoop(_, _, _, _, _)
RECURSIVE MappingLoop(_, _, _, _, _)
RECURSIVE InstancePosLoop(_, _, _, _, _, _)
RECURSIVE InstanceKwLoop(_, _, _, _, _)

ConstantPattern_match_no_type_test(p, x) ==
    IF PyEq(x, p.const) THEN Matched(NoBindings, <<<<>>>>)
    ELSE NotMatched(<<<<>>>>)
ConstantPattern_match(p, x) ==
    IF _is_instance(x, TypeOf(p.const)) /\ PyEq(x, p.const)
    THEN Matched(NoBindings, <<<<>>>>)
    ELSE NotMatched(<<<<>>>>)

\* for p in self.patterns: the first arm whose match is not None returns.
AlternativesLoop(p, x, i, ev) ==
    IF i > Len(p.pats) THEN NotMatched(ev)
    ELSE LET r == match(p.pats[i], x)
             ev2 == ev \o Below(i, r.ev)
         IN  IF r.st = "raise" THEN Raised(r.exc, ev2)
             ELSE IF r.st = "match" THEN Matched(r.b, ev2)
             ELSE AlternativesLoop(p, x, i + 1, ev2)
AlternativesPattern_match(p, x) == AlternativesLoop(p, x, 1, <<<<>>>>)

VariablePattern_match(p, x) == Matched(p.name :> x, <<<<>>>>)

AnnotatedPattern_match_isinstance(p, x) ==
    IF IsInstance(x, p.cls)
    THEN LET r == match(p.pats[1], x)
         IN  [r EXCEPT !.ev = <<<<>>>> \o Below(1, r.ev)]
    ELSE NotMatched(<<<<>>>>)
AnnotatedPattern_match(p, x) ==
    IF _is_instance(x, p.cls)
    THEN LET r == match(p.pats[1], x)
         IN  [r EXCEPT !.ev = <<<<>>>> \o Below(1, r.ev)]
    ELSE NotMatched(<<<<>>>>)

\* for pattern, item in zip(self.patterns, x)
SequenceLoop(p, x, i, matches, ev) ==
    IF i > Len(p.pats) THEN Matched(matches, ev)
    ELSE LET r == match(p.pats[i], GetItem(x, i - 1))
             ev2 == ev \o Below(i, r.ev)
         IN  IF r.st = "raise" THEN Raised(r.exc, ev2)
             ELSE IF r.st = "none" THEN NotMatched(ev2)
             ELSE SequenceLoop(p, x, i + 1, Update(matches, r.b), ev2)
SequencePattern_match(p, x) ==
    IF /\ IsAbcSequence(x)
       /\ ~(IsInstance(x, "str") \/ IsInstance(x, "bytes"))
       /\ PyLen(x) = Len(p.pats)
    THEN SequenceLoop(p, x, 1, NoBindings, <<<<>>>>)
    ELSE NotMatched(<<<<>>>>)

\* for key, pattern in self.patterns.items()
MappingLoop(p, x, i, matches, ev) ==
    IF i > Len(p.kwp) THEN Matched(matches, ev)
    ELSE IF ~HasKey(x, p.kwn[i]) THEN NotMatched(ev)
    ELSE LET r == match(p.kwp[i], GetKey(x, p.kwn[i]))
             ev2 == ev \o Below(i, r.ev)
         IN  IF r.st = "raise" THEN Raised(r.exc, ev2)
             ELSE IF r.st = "none" THEN NotMatched(ev2)
             ELSE MappingLoop(p, x, i + 1, Update(matches, r.b), ev2)
MappingPattern_match(p, x) ==
    IF ~IsAbcMapping(x) THEN NotMatched(<<<<>>>>)
    ELSE MappingLoop(p, x, 1, NoBindings, <<<<>>>>)

\* for name, pattern in self.kwargs.items()
InstanceKwLoop(p, x, i, matches, ev) ==
    IF i > Len(p.kwp) THEN Matched(matches, ev)
    ELSE IF ~HasAttr(x, p.kwn[i]) THEN NotMatched(ev)
    ELSE LET r == match(p.kwp[i], GetAttr(x, p.kwn[i]))
             ev2 == ev \o Below(Len(p.pats) + i, r.ev)
         IN  IF r.st = "raise" THEN Raised(r.exc, ev2)
             ELSE IF r.st = "none" THEN NotMatched(ev2)
             ELSE InstanceKwLoop(p, x, i + 1, Update(matches, r.b), ev2)

\* for field, pattern in zip(fields, self.posargs), then the kwargs.
InstancePosLoop(p, x, fields, i, matches, ev) ==
    IF i > Len(p.pats) \/ i > Len(fields)
    THEN InstanceKwLoop(p, x, 1, matches, ev)
    ELSE IF ~HasAttr(x, fields[i]) THEN NotMatched(ev)
    ELSE LET r == match(p.pats[i], GetAttr(x, fields[i]))
             ev2 == ev \o Below(i, r.ev)
         IN  IF r.st = "raise" THEN Raised(r.exc, ev2)
             ELSE IF r.st = "none" THEN NotMatched(ev2)
             ELSE InstancePosLoop(p, x, fields, i + 1, Update(matches, r.b), ev2)

\* dataclasses.fields(x) raises TypeError when x is no dataclass instance;
\* the handler of match catches RuntimeError only, so the TypeError leaves.
InstancePattern_match(p, x) ==
    IF ~_is_instance(x, p.cls) THEN NotMatched(<<<<>>>>)
    ELSE IF ~IsDataclass(TypeOf(x)) THEN Raised("TypeError", <<<<>>>>)
    ELSE LET fields == DataclassFields(TypeOf(x))
         IN  IF Len(p.pats) > Len(fields) THEN NotMatched(<<<<>>>>)
             ELSE InstancePosLoop(p, x, fields, 1, NoBindings, <<<<>>>>)

WalrusPattern_match_setdefault(p, x) ==
    LET r == match(p.pats[1], x)
        ev == <<<<>>>> \o Below(1, r.ev)
    IN  IF r.st = "match" THEN Matched(Update(p.name :> x, r.b), ev)
        ELSE [r EXCEPT !.ev = ev]
WalrusPattern_match(p, x) ==
    LET r == match(p.pats[1], x)
        ev == <<<<>>>> \o Below(1, r.ev)
    IN  IF r.st = "match" THEN Matched(Update(r.b, p.name :> x), ev)
        ELSE [r EXCEPT !.ev = ev]

\* p.match(x): the method of p's class.
match(p, x) ==
    CASE p.tag = "ConstantPattern" -> ConstantPattern_match(p, x)
      [] p.tag = "AlternativesPattern" -> AlternativesPattern_match(p, x)
      [] p.tag = "VariablePattern" -> VariablePattern_match(p, x)
      [] p.tag = "AnnotatedPattern" -> AnnotatedPattern_match(p, x)
      [] p.tag = "SequencePattern" -> SequencePattern_match(p, x)
      [] p.tag = "MappingPattern" -> MappingPattern_match(p, x)
      [] p.tag = "InstancePattern" -> InstancePattern_match(p, x)
      [] p.tag = "WalrusPattern" -> WalrusPattern_match(p, x)


(***************************************************************************)
(* match, with the dicts as objects.  The dicts that match makes live in   *)
(* heap, a sequence of dicts; a dict object is its index in it.  A call's  *)
(* outcome is a record [st, ref, exc, heap]: ref is the dict object        *)
(* returned (0 when there is none) and heap the dicts after the call.      *)
(* WalrusPattern.match stores into the dict its inner pattern returned,    *)
(* and the update() of the other classes copies entries.                   *)
(***************************************************************************)
Returned(ref, heap) == [st |-> "match", ref |-> ref, exc |-> "", heap |-> heap]
NoneReturned(heap) == [st |-> "none", ref |-> 0, exc |-> "", heap |-> heap]
RaisedIn(exc, heap) == [st |-> "raise", ref |-> 0, exc |-> exc, heap |-> heap]

\* A dict display, {} or {name: x}: a new dict object.
NewDict(d, heap) == Returned(Len(heap) + 1, Append(heap, d))

\* matches.update(match) on dict objects.
UpdateIn(heap, matches, m) ==
    [heap EXCEPT ![matches] = Update(heap[matches], heap[m])]

RECURSIVE match_heap(_, _, _)
RECURSIVE AlternativesLoop_heap(_, _, _, _)
RECURSIVE SequenceLoop_heap(_, _, _, _, _)
RECURSIVE MappingLoop_heap(_, _, _, _, _)
RECURSIVE InstancePosLoop_heap(_, _, _, _, _, _)
RECURSIVE InstanceKwLoop_heap(_, _, _, _, _)

ConstantPattern_match_heap_shared(p, x, heap) ==
    IF _is_instance(x, TypeOf(p.const)) /\ PyEq(x, p.const)
    THEN IF heap = <<>> THEN NewDict(NoBindings, heap) ELSE Returned(1, heap)
    ELSE NoneReturned(heap)
ConstantPattern_match_heap(p, x, heap) ==
    IF _is_instance(x, TypeOf(p.const)) /\ PyEq(x, p.const)
    THEN NewDict(NoBindings, heap)
    ELSE NoneReturned(heap)

AlternativesLoop_heap(p, x, i, heap) ==
    IF i > Len(p.pats) THEN NoneReturned(heap)
    ELSE LET r == match_heap(p.pats[i], x, heap)
         IN  IF r.st # "none" THEN r
             ELSE AlternativesLoop_heap(p, x, i + 1, r.heap)
AlternativesPattern_match_heap(p, x, heap) ==
    AlternativesLoop_heap(p, x, 1, heap)

VariablePattern_match_heap(p, x, heap) == NewDict(p.name :> x, heap)

AnnotatedPattern_match_heap(p, x, heap) ==
    IF _is_instance(x, p.cls) THEN match_heap(p.pats[1], x, heap)
    ELSE NoneReturned(heap)

SequenceLoop_heap(p, x, i, matches, heap) ==
    IF i > Len(p.pats) THEN Returned(matches, heap)
    ELSE LET r == match_heap(p.pats[i], GetItem(x, i - 1), heap)
         IN  IF r.st # "match" THEN r
             ELSE SequenceLoop_heap(p, x, i + 1, matches,
                                    UpdateIn(r.heap, matches, r.ref))
SequencePattern_match_heap(p, x, heap) ==
    IF /\ IsAbcSequence(x)
       /\ ~(IsInstance(x, "str") \/ IsInstance(x, "bytes"))
       /\ PyLen(x) = Len(p.pats)
    THEN LET matches == NewDict(NoBindings, heap)
         IN  SequenceLoop_heap(p, x, 1, matches.ref, matches.heap)
    ELSE NoneReturned(heap)

MappingLoop_heap(p, x, i, matches, heap) ==
    IF i > Len(p.kwp) THEN Returned(matches, heap)
    ELSE IF ~HasKey(x, p.kwn[i]) THEN NoneReturned(heap)
    ELSE LET r == match_heap(p.kwp[i], GetKey(x, p.kwn[i]), heap)
         IN  IF r.st # "match" THEN r
             ELSE MappingLoop_heap(p, x, i + 1, matches,
                                   UpdateIn(r.heap, matches, r.ref))
MappingPattern_match_heap(p, x, heap) ==
    IF ~IsAbcMapping(x) THEN NoneReturned(heap)
    ELSE LET matches == NewDict(NoBindings, heap)
         IN  MappingLoop_heap(p, x, 1, matches.ref, matches.heap)

InstanceKwLoop_heap(p, x, i, matches, heap) ==
    IF i > Len(p.kwp) THEN Returned(matches, heap)
    ELSE IF ~HasAttr(x, p.kwn[i]) THEN NoneReturned(heap)
    ELSE LET r == match_heap(p.kwp[i], GetAttr(x, p.kwn[i]), heap)
         IN  IF r.st # "match" THEN r
             ELSE InstanceKwLoop_heap(p, x, i + 1, matches,
                                      UpdateIn(r.heap, matches, r.ref))

InstancePosLoop_heap(p, x, fields, i, matches, heap) ==
    IF i > Len(p.pats) \/ i > Len(fields)
    THEN InstanceKwLoop_heap(p, x, 1, matches, heap)
    ELSE IF ~HasAttr(x, fields[i]) THEN NoneReturned(heap)
    ELSE LET r == match_heap(p.pats[i], GetAttr(x, fields[i]), heap)
         IN  IF r.st # "match" THEN r
             ELSE InstancePosLoop_heap(p, x, fields, i + 1, matches,
                                       UpdateIn(r.heap, matches, r.ref))

InstancePattern_match_heap(p, x, heap) ==
    IF ~_is_instance(x, p.cls) THEN NoneReturned(heap)
    ELSE IF ~IsDataclass(TypeOf(x)) THEN RaisedIn("TypeError", heap)
    ELSE LET fields == DataclassFields(TypeOf(x))
         IN  IF Len(p.pats) > Len(fields) THEN NoneReturned(heap)
             ELSE LET matches == NewDict(NoBindings, heap)
                  IN  InstancePosLoop_heap(p, x, fields, 1,
                                           matches.ref, matches.heap)

\* match[self.name] = x: a store into the dict the inner pattern returned.
WalrusPattern_match_heap(p, x, heap) ==
    LET r == match_heap(p.pats[1], x, heap)
    IN  IF r.st = "match"
        THEN Returned(r.ref, [r.heap EXCEPT ![r.ref] =
                                 Update(r.heap[r.ref], p.name :> x)])
        ELSE r

match_heap(p, x, heap) ==
    CASE p.tag = "ConstantPattern" -> ConstantPattern_match_heap(p, x, heap)
      [] p.tag = "AlternativesPattern" ->
            AlternativesPattern_match_heap(p, x, heap)
      [] p.tag = "VariablePattern" -> VariablePattern_match_heap(p, x, heap)
      [] p.tag = "AnnotatedPattern" -> AnnotatedPattern_match_heap(p, x, heap)
      [] p.tag = "SequencePattern" -> SequencePattern_match_heap(p, x, heap)
      [] p.tag = "MappingPattern" -> MappingPattern_match_heap(p, x, heap)
      [] p.tag = "InstancePattern" -> InstancePattern_match_heap(p, x, heap)
      [] p.tag = "WalrusPattern" -> WalrusPattern_match_heap(p, x, heap)


(***************************************************************************)
(* bindings.  A call's outcome is a record [st, names, exc, arm, diff]: st *)
(* is "ok" (the set names was returned) or "raise" (exc left the call);    *)
(* arm and diff are what the exception's message reports: the index of the *)
(* offending arm and the names that differ (InconsistentBindings), or the  *)
(* names bound twice (DuplicateBindings); a WalrusPattern's message names  *)
(* none, and diff is empty.                                                *)
(***************************************************************************)
Bound(names) == [st |-> "ok", names |-> names, exc |-> "", arm |-> 0, diff |-> {}]
BindingsError(exc, arm, diff) ==
    [st |-> "raise", names |-> {}, exc |-> exc, arm |-> arm, diff |-> diff]

RECURSIVE bindings(_, _)
RECURSIVE AlternativesBindingsLoop(_, _, _, _)
RECURSIVE ChildrenBindingsLoop(_, _, _, _)

ConstantPattern_bindings(p, strict) == Bound({})

AlternativesBindingsLoop_extra_only(p, strict, i, result) ==
    IF i + 1 > Len(p.pats) THEN Bound(result)
    ELSE LET b == bindings(p.pats[i + 1], TRUE)
         IN  IF b.st = "raise" THEN b
             ELSE IF strict /\ (b.names \ result) # {}
             THEN BindingsError("InconsistentBindings", i, b.names \ result)
             ELSE AlternativesBindingsLoop(p, strict, i + 1, result \cup b.names)
\* for i, p in enumerate(self.patterns[1:], 1): b = p.bindings()
\* The later arms are asked with the default, strict=True, whatever strict is.
AlternativesBindingsLoop(p, strict, i, result) ==
    IF i + 1 > Len(p.pats) THEN Bound(result)
    ELSE LET b == bindings(p.pats[i + 1], TRUE)
         IN  IF b.st = "raise" THEN b
             ELSE IF strict /\ b.names # result
             THEN BindingsError("InconsistentBindings", i,
                                (b.names \ result) \cup (result \ b.names))
             ELSE AlternativesBindingsLoop(p, strict, i + 1, result \cup b.names)
AlternativesPattern_bindings(p, strict) ==
    IF p.pats = <<>> THEN Bound({})
    ELSE LET first == bindings(p.pats[1], strict)
         IN  IF first.st = "raise" THEN first
             ELSE AlternativesBindingsLoop(p, strict, 1, first.names)

\* A variant that does not leave "_" out.
VariablePattern_bindings_with_wildcard(p, strict) == Bound({p.name})
VariablePattern_bindings(p, strict) ==
    IF p.name = "_" THEN Bound({}) ELSE Bound({p.name})

AnnotatedPattern_bindings(p, strict) == bindings(p.pats[1], strict)

\* for p in children: b = p.bindings(strict); raise if strict and b & result
ChildrenBindingsLoop(children, strict, i, result) ==
    IF i > Len(children) THEN Bound(result)
    ELSE LET b == bindings(children[i], strict)
         IN  IF b.st = "raise" THEN b
             ELSE IF strict /\ (b.names \cap result) # {}
             THEN BindingsError("DuplicateBindings", 0, b.names \cap result)
             ELSE ChildrenBindingsLoop(children, strict, i + 1,
                                       result \cup b.names)

SequencePattern_bindings(p, strict) ==
    ChildrenBindingsLoop(p.pats, strict, 1, {})

MappingPattern_bindings(p, strict) ==
    ChildrenBindingsLoop(p.kwp, strict, 1, {})

InstancePattern_bindings_apart(p, strict) ==
    LET pos == ChildrenBindingsLoop(p.pats, strict, 1, {})
        kw == ChildrenBindingsLoop(p.kwp, strict, 1, {})
    IN  IF pos.st = "raise" THEN pos
        ELSE IF kw.st = "raise" THEN kw
        ELSE Bound(pos.names \cup kw.names)
\* itertools.chain(self.posargs, self.kwargs.values())
InstancePattern_bindings(p, strict) ==
    ChildrenBindingsLoop(p.pats \o p.kwp, strict, 1, {})

WalrusPattern_bindings(p, strict) ==
    LET result == bindings(p.pats[1], strict)
    IN  IF result.st = "raise" THEN result
        ELSE IF p.name = "_" THEN result
        ELSE IF strict /\ p.name \in result.names
        THEN BindingsError("DuplicateBindings", 0, {})
        ELSE Bound(result.names \cup {p.name})

\* p.bindings(strict): the method of p's class.
bindings(p, strict) ==
    CASE p.tag = "ConstantPattern" -> ConstantPattern_bindings(p, strict)
      [] p.tag = "AlternativesPattern" -> AlternativesPattern_bindings(p, strict)
      [] p.tag = "VariablePattern" -> VariablePattern_bindings(p, strict)
      [] p.tag = "AnnotatedPattern" -> AnnotatedPattern_bindings(p, strict)
      [] p.tag = "SequencePattern" -> SequencePattern_bindings(p, strict)
      [] p.tag = "MappingPattern" -> MappingPattern_bindings(p, strict)
      [] p.tag = "InstancePattern" -> InstancePattern_bindings(p, strict)
      [] p.tag = "WalrusPattern" -> WalrusPattern_bindings(p, strict)

(***************************************************************************)
(* bindings, with the sets as objects.  heap is the sequence of the set    *)
(* objects made so far and an outcome [st, ref, exc, heap] names the set   *)
(* returned by its index: result |= b changes the object result names, and *)
(* AnnotatedPattern, AlternativesPattern and WalrusPattern hand on or      *)
(* change the set a sub-pattern returned.                                  *)
(***************************************************************************)
SetReturned(ref, heap) == [st |-> "ok", ref |-> ref, exc |-> "", heap |-> heap]
SetRaised(exc, heap) == [st |-> "raise", ref |-> 0, exc |-> exc, heap |-> heap]

\* set() or a set display {name}: a new set object.
NewSet(s, heap) == SetReturned(Len(heap) + 1, Append(heap, s))

\* result |= b on set objects.
UnionIn(heap, result, b) == [heap EXCEPT ![result] = @ \cup b]

RECURSIVE bindings_heap(_, _, _)
RECURSIVE AlternativesBindingsLoop_heap(_, _, _, _, _)
RECURSIVE ChildrenBindingsLoop_heap(_, _, _, _, _)

ConstantPattern_bindings_heap(p, strict, heap) == NewSet({}, heap)

AlternativesBindingsLoop_heap(p, strict, i, result, heap) ==
    IF i + 1 > Len(p.pats) THEN SetReturned(result, heap)
    ELSE LET b == bindings_heap(p.pats[i + 1], TRUE, heap)
         IN  IF b.st = "raise" THEN b
             ELSE IF strict /\ b.heap[b.ref] # b.heap[result]
             THEN SetRaised("InconsistentBindings", b.heap)
             ELSE AlternativesBindingsLoop_heap(
                      p, strict, i + 1, result,
                      UnionIn(b.heap, result, b.heap[b.ref]))
\* result is the set the first arm returned.
AlternativesPattern_bindings_heap(p, strict, heap) ==
    IF p.pats = <<>> THEN NewSet({}, heap)
    ELSE LET first == bindings_heap(p.pats[1], strict, heap)
         IN  IF first.st = "raise" THEN first
             ELSE AlternativesBindingsLoop_heap(p, strict, 1, first.ref,
                                                first.heap)

\* A variant that keeps one set and returns it again.
VariablePattern_bindings_heap_kept(p, strict, heap) ==
    IF heap = <<>>
    THEN NewSet(IF p.name = "_" THEN {} ELSE {p.name}, heap)
    ELSE SetReturned(1, heap)
VariablePattern_bindings_heap(p, strict, heap) ==
    NewSet(IF p.name = "_" THEN {} ELSE {p.name}, heap)

\* The set the inner pattern returned is returned.
AnnotatedPattern_bindings_heap(p, strict, heap) ==
    bindings_heap(p.pats[1], strict, heap)

ChildrenBindingsLoop_heap(children, strict, i, result, heap) ==
    IF i > Len(children) THEN SetReturned(result, heap)
    ELSE LET b == bindings_heap(children[i], strict, heap)
         IN  IF b.st = "raise" THEN b
             ELSE IF strict /\ (b.heap[b.ref] \cap b.heap[result]) # {}
             THEN SetRaised("DuplicateBindings", b.heap)
             ELSE ChildrenBindingsLoop_heap(
                      children, strict, i + 1, result,
                      UnionIn(b.heap, result, b.heap[b.ref]))

\* result: Set[str] = set(), then the loop over the sub-patterns.
ChildrenBindings_heap(children, strict, heap) ==
    LET result == NewSet({}, heap)
    IN  ChildrenBindingsLoop_heap(children, strict, 1, result.ref, result.heap)

SequencePattern_bindings_heap(p, strict, heap) ==
    ChildrenBindings_heap(p.pats, strict, heap)

MappingPattern_bindings_heap(p, strict, heap) ==
    ChildrenBindings_heap(p.kwp, strict, heap)

InstancePattern_bindings_heap(p, strict, heap) ==
    ChildrenBindings_heap(p.pats \o p.kwp, strict, heap)

\* result |= {self.name}: into the set the inner pattern returned.
WalrusPattern_bindings_heap(p, strict, heap) ==
    LET result == bindings_heap(p.pats[1], strict, heap)
    IN  IF result.st = "raise" THEN result
        ELSE IF p.name = "_" THEN result
        ELSE IF strict /\ p.name \in result.heap[result.ref]
        THEN SetRaised("DuplicateBindings", result.heap)
        ELSE SetReturned(result.ref,
                         UnionIn(result.heap, result.ref, {p.name}))

bindings_heap(p, strict, heap) ==
    CASE p.tag = "ConstantPattern" -> ConstantPattern_bindings_heap(p, strict, heap)
      [] p.tag = "AlternativesPattern" ->
            AlternativesPattern_bindings_heap(p, strict, heap)
      [] p.tag = "VariablePattern" -> VariablePattern_bindings_heap(p, strict, heap)
      [] p.tag = "AnnotatedPattern" ->
            AnnotatedPattern_bindings_heap(p, strict, heap)
      [] p.tag = "SequencePattern" -> SequencePattern_bindings_heap(p, strict, heap)
      [] p.tag = "MappingPattern" -> MappingPattern_bindings_heap(p, strict, heap)
      [] p.tag = "InstancePattern" -> InstancePattern_bindings_heap(p, strict, heap)
      [] p.tag = "WalrusPattern" -> WalrusPattern_bindings_heap(p, strict, heap)

(***************************************************************************)
(* translate.  The expression a translate method returns is text; the      *)
(* model keeps its syntax tree, a record [op, name, val, n, args].  The    *)
(* text of an empty ' and '.join(...) leaves "... and )" behind, which is  *)
(* no expression: the tree holds a "hole" there.                           *)
(***************************************************************************)
Expr(o, name, v, n, args) ==
    [op |-> o, name |-> name, val |-> v, n |-> n, args |-> args]

NameE(id) == Expr("name", id, NoneV, 0, <<>>)             \* id
LitE(v) == Expr("lit", "", v, 0, <<>>)                    \* repr(v)
IndexE(e, i) == Expr("index", "", NoneV, i, <<e>>)        \* e[i]
KeyE(e, key) == Expr("key", key, NoneV, 0, <<e>>)         \* e['key']
EqE(a, b) == Expr("eq", "", NoneV, 0, <<a, b>>)           \* a == b
GeE(a, b) == Expr("ge", "", NoneV, 0, <<a, b>>)           \* a >= b
IsNotE(a, b) == Expr("isnot", "", NoneV, 0, <<a, b>>)     \* a is not b
AndE(es) == Expr("and", "", NoneV, 0, es)                 \* (e1 and e2 ...)
OrE(es) == Expr("or", "", NoneV, 0, es)                   \* (e1 or e2 ...)
IsInstanceE(e, cls) == Expr("isinstance", cls, NoneV, 0, <<e>>)
WalrusE(id, e) == Expr("walrus", id, NoneV, 0, <<e>>)     \* id := e
Tuple1E(e) == Expr("tuple1", "", NoneV, 0, <<e>>)         \* (e,)
Tuple0E == Expr("tuple0", "", NoneV, 0, <<>>)             \* ()
LenE(e) == Expr("len", "", NoneV, 0, <<e>>)               \* len(e)
InE(key, e) == Expr("in", key, NoneV, 0, <<e>>)           \* 'key' in e
IfElseE(c, a, b) == Expr("ifelse", "", NoneV, 0, <<c, a, b>>)  \* a if c else b
MatchCallE(cls, e) == Expr("__match__", cls, NoneV, 0, <<e>>)  \* cls.__match__(e)
GetAttrE(e, attr, dflt) == Expr("getattr", "", NoneV, 0, <<e, attr, dflt>>)
HoleE == Expr("hole", "", NoneV, 0, <<>>)

\* A str that is an attribute name, as __match_args__ holds them.
NameStr(name) == Cell("str", name, 0, <<>>)

\* _full_class_name: the qualified name; the model's class names are unique.
_full_class_name(cls) == cls

\* A variant that does not look at the stack.
_get_stack_depth_fixed(frames) == 1
\* _get_stack_depth, called with `frames` frames on the stack: it counts
\* them and its own.
_get_stack_depth(frames) == frames + 1

RECURSIVE translate(_, _, _)

ConstantPattern_translate(p, target, frames) ==
    IF IsInstance(p.const, "int")
    THEN AndE(<<EqE(target, LitE(p.const)), IsInstanceE(target, "int")>>)
    ELSE IF IsInstance(p.const, "float")
    THEN AndE(<<EqE(target, LitE(p.const)),
                IsInstanceE(target, "(int, float)")>>)
    ELSE EqE(target, LitE(p.const))

\* The arms are translated inside a generator expression that str.join
\* runs: two frames below this one.
AlternativesPattern_translate(p, target, frames) ==
    IF p.pats = <<>> THEN Tuple0E
    ELSE OrE([i \in 1..Len(p.pats) |-> translate(p.pats[i], target, frames + 2)])

\* A variant that leaves the tuple out: the value of the text is the
\* target's.
VariablePattern_translate_bare(p, target, frames) == WalrusE(p.name, target)

VariablePattern_translate(p, target, frames) == Tuple1E(WalrusE(p.name, target))

AnnotatedPattern_translate(p, target, frames) ==
    AndE(<<IsInstanceE(target, _full_class_name(p.cls)),
           translate(p.pats[1], target, frames + 1)>>)

\* A variant that tests the items before the length.
SequencePattern_translate_items_first(p, target, frames) ==
    AndE(<<IsInstanceE(target, "Sequence")>>
         \o (IF p.pats = <<>> THEN <<HoleE>>
             ELSE [i \in 1..Len(p.pats) |->
                     translate(p.pats[i], IndexE(target, i - 1), frames + 2)])
         \o <<EqE(LenE(target), LitE(IntV(Len(p.pats))))>>)

SequencePattern_translate(p, target, frames) ==
    AndE(<<IsInstanceE(target, "Sequence"),
           EqE(LenE(target), LitE(IntV(Len(p.pats))))>>
         \o (IF p.pats = <<>> THEN <<HoleE>>
             ELSE [i \in 1..Len(p.pats) |->
                     translate(p.pats[i], IndexE(target, i - 1), frames + 2)]))

MappingPattern_translate(p, target, frames) ==
    AndE(<<IsInstanceE(target, "Mapping")>>
         \o (IF p.kwp = <<>> THEN <<HoleE>>
             ELSE [i \in 1..Len(p.kwp) |->
                     AndE(<<InE(p.kwn[i], target),
                            translate(p.kwp[i], KeyE(target, p.kwn[i]),
                                      frames + 2)>>)]))

InstancePattern_translate(p, target, frames) ==
    LET depth == _get_stack_depth(frames)
        tmpvar == "_t" \o ToString(depth)
        fields == "_f" \o ToString(depth)
        item == "_i" \o ToString(depth)
        npos == Len(p.pats)
        Nope == NameE("_Nope")
        Staged(attr) ==
            IsNotE(WalrusE(item, GetAttrE(NameE(tmpvar), attr, Nope)), Nope)
        PosCond(i) == Staged(IndexE(NameE(fields), i - 1))
        PosText(i) == translate(p.pats[i], NameE(item), frames + 1)
        KwCond(i) == Staged(LitE(NameStr(p.kwn[i])))
        KwText(i) == translate(p.kwp[i], NameE(item), frames + 1)
        \* conditions.append(<test>); conditions.append(<sub-pattern's text>)
        Flat(cond(_), text(_), n) ==
            [j \in 1..(2 * n) |->
                IF j % 2 = 1 THEN cond((j + 1) \div 2) ELSE text(j \div 2)]
    IN  AndE(<<IsNotE(WalrusE(tmpvar,
                              MatchCallE(_full_class_name(p.cls), target)),
                      LitE(NoneV))>>
             \o (IF npos > 0
                 THEN <<IsNotE(WalrusE(fields,
                                       GetAttrE(NameE(tmpvar),
                                                LitE(NameStr("__match_args__")),
                                                LitE(NoneV))),
                               LitE(NoneV)),
                        IsInstanceE(NameE(fields), "Sequence"),
                        GeE(LenE(NameE(fields)), LitE(IntV(npos)))>>
                      \o Flat(PosCond, PosText, npos)
                 ELSE <<>>)
             \o Flat(KwCond, KwText, Len(p.kwp)))

WalrusPattern_translate(p, target, frames) ==
    IfElseE(translate(p.pats[1], target, frames + 1),
            Tuple1E(WalrusE(p.name, target)),
            LitE(BoolV(FALSE)))

\* p.translate(target), called with `frames` frames on the stack.
translate(p, target, frames) ==
    CASE p.tag = "ConstantPattern" -> ConstantPattern_translate(p, target, frames)
      [] p.tag = "AlternativesPattern" ->
           AlternativesPattern_translate(p, target, frames)
      [] p.tag = "VariablePattern" -> VariablePattern_translate(p, target, frames)
      [] p.tag = "AnnotatedPattern" -> AnnotatedPattern_translate(p, target, frames)
      [] p.tag = "SequencePattern" -> SequencePattern_translate(p, target, frames)
      [] p.tag = "MappingPattern" -> MappingPattern_translate(p, target, frames)
      [] p.tag = "InstancePattern" -> InstancePattern_translate(p, target, frames)
      [] p.tag = "WalrusPattern" -> WalrusPattern_translate(p, target, frames)

(***************************************************************************)
(* Evaluation of a translated expression, as Python evaluates the text:    *)
(* left to right, `and`, `or` and the conditional expression evaluating    *)
(* only the operands they need, an assignment expression writing its name  *)
(* into the environment.  An outcome is a record [st, v, env, exc]: st is  *)
(* "ok" (the value v) or "raise" (the exception exc); env is the           *)
(* environment left behind.  The names Sequence, Mapping and _Nope and the *)
(* classes are taken to be in scope.  No class has an attribute __match__  *)
(* (patma.py only writes the name into the text), so cls.__match__ raises  *)
(* AttributeError before the call's argument is evaluated.                 *)
(***************************************************************************)
EvalOk(v, env) == [st |-> "ok", v |-> v, env |-> env, exc |-> ""]
EvalRaise(exc, env) == [st |-> "raise", v |-> NoneV, env |-> env, exc |-> exc]

\* The sentinel the emitted text calls _Nope.
NopeV == Cell("_Nope", "", 0, <<>>)

\* bool(v)
Truthy(v) ==
    CASE IsNumber(v) -> v.n # 0
      [] v.k = "NoneType" -> FALSE
      [] v.k \in {"str", "bytes", "bytearray", "list", "tuple", "dict"} ->
           Len(v.c) > 0
      [] OTHER -> TRUE

\* The classes a second argument of isinstance names.
ClassesOf(name) == IF name = "(int, float)" THEN {"int", "float"} ELSE {name}

IsInstanceOfNamed(v, cls) ==
    CASE cls = "Sequence" -> IsAbcSequence(v)
      [] cls = "Mapping" -> IsAbcMapping(v)
      [] OTHER -> IsInstance(v, cls)

\* cls.__match_args__: the field names of a dataclass, as a tuple of str.
ClassMatchArgs(cls) ==
    TupleV([i \in 1..Len(DataclassFields(cls)) |-> NameStr(DataclassFields(cls)[i])])

\* getattr(o, name, dflt)
GetAttrOr(o, name, dflt) ==
    IF name = "__match_args__"
    THEN IF IsDataclass(TypeOf(o)) THEN ClassMatchArgs(TypeOf(o)) ELSE dflt
    ELSE IF HasAttr(o, name) THEN GetAttr(o, name) ELSE dflt

\* Whether the text is no expression at all.
RECURSIVE HasHole(_)
HasHole(e) == e.op = "hole" \/ \E i \in 1..Len(e.args) : HasHole(e.args[i])

\* The characters of a str, as codes ('a' is 1); a str that is a name is
\* kept by its name.
NameLetters(name) ==
    CASE name = "a" -> <<1>>
      [] name = "b" -> <<2>>
      [] name = "x" -> <<24>>
      [] name = "y" -> <<25>>
      [] name = "_" -> <<-1>>
      [] name = "__match_args__" ->
           <<-1, -1, 13, 1, 20, 3, 8, -1, 1, 18, 7, 19, -1, -1>>
StrCodes(v) ==
    IF v.s # "" THEN NameLetters(v.s) ELSE [i \in 1..Len(v.c) |-> v.c[i].n]

\* 'key' in v: a key of a dict, an item of a list or tuple, a substring of
\* a str (on any other v the test raises TypeError).
In(key, v) ==
    CASE v.k = "dict" -> HasKey(v, key)
      [] v.k \in {"list", "tuple"} ->
           \E i \in 1..Len(v.c) :
               v.c[i].k = "str" /\ StrCodes(v.c[i]) = NameLetters(key)
      [] v.k = "str" ->
           LET h == StrCodes(v)
               n == NameLetters(key)
           IN  \E i \in 0..(Len(h) - Len(n)) : SubSeq(h, i + 1, i + Len(n)) = n

RECURSIVE Eval(_, _)
RECURSIVE EvalAnd(_, _, _)
RECURSIVE EvalOr(_, _, _)

EvalAnd(es, i, env) ==
    LET r == Eval(es[i], env)
    IN  IF r.st = "raise" \/ i = Len(es) \/ ~Truthy(r.v) THEN r
        ELSE EvalAnd(es, i + 1, r.env)

EvalOr(es, i, env) ==
    LET r == Eval(es[i], env)
    IN  IF r.st = "raise" \/ i = Len(es) \/ Truthy(r.v) THEN r
        ELSE EvalOr(es, i + 1, r.env)

\* e1 <op> e2: e1 is evaluated, then e2.
EvalBoth(e, env, Op(_, _)) ==
    LET a == Eval(e.args[1], env)
    IN  IF a.st = "raise" THEN a
        ELSE LET b == Eval(e.args[2], a.env)
             IN  IF b.st = "raise" THEN b
                 ELSE EvalOk(Op(a.v, b.v), b.env)

\* f(e1): e1 is evaluated, then f applied; f raises exc where Defined fails.
EvalOne(e, env, Defined(_), F(_), exc) ==
    LET a == Eval(e.args[1], env)
    IN  IF a.st = "raise" THEN a
        ELSE IF ~Defined(a.v) THEN EvalRaise(exc, a.env)
        ELSE EvalOk(F(a.v), a.env)

Eval(e, env) ==
    CASE e.op = "name" ->
           IF e.name \in DOMAIN env THEN EvalOk(env[e.name], env)
           ELSE EvalRaise("NameError", env)
      [] e.op = "lit" -> EvalOk(e.val, env)
      [] e.op = "index" ->
           LET a == Eval(e.args[1], env)
           IN  IF a.st = "raise" THEN a
               ELSE IF IsAbcSequence(a.v)
               THEN IF e.n < PyLen(a.v) THEN EvalOk(GetItem(a.v, e.n), a.env)
                    ELSE EvalRaise("IndexError", a.env)
               ELSE IF IsAbcMapping(a.v) THEN EvalRaise("KeyError", a.env)
               ELSE EvalRaise("TypeError", a.env)
      [] e.op = "key" ->
           LET a == Eval(e.args[1], env)
           IN  IF a.st = "raise" THEN a
               ELSE IF ~IsAbcMapping(a.v) THEN EvalRaise("TypeError", a.env)
               ELSE IF HasKey(a.v, e.name) THEN EvalOk(GetKey(a.v, e.name), a.env)
               ELSE EvalRaise("KeyError", a.env)
      [] e.op = "eq" -> EvalBoth(e, env, LAMBDA a, b : BoolV(PyEq(a, b)))
      [] e.op = "ge" -> EvalBoth(e, env, LAMBDA a, b : BoolV(Num(a) >= Num(b)))
      [] e.op = "isnot" -> EvalBoth(e, env, LAMBDA a, b : BoolV(a # b))
      [] e.op = "and" -> EvalAnd(e.args, 1, env)
      [] e.op = "or" -> EvalOr(e.args, 1, env)
      [] e.op = "isinstance" ->
           EvalOne(e, env, LAMBDA v : TRUE,
                   LAMBDA v : BoolV(\E c \in ClassesOf(e.name) :
                                       IsInstanceOfNamed(v, c)),
                   "")
      [] e.op = "walrus" ->
           LET a == Eval(e.args[1], env)
           IN  IF a.st = "raise" THEN a
               ELSE EvalOk(a.v, Update(a.env, e.name :> a.v))
      [] e.op = "tuple1" ->
           EvalOne(e, env, LAMBDA v : TRUE, LAMBDA v : TupleV(<<v>>), "")
      [] e.op = "tuple0" -> EvalOk(TupleV(<<>>), env)
      [] e.op = "len" ->
           EvalOne(e, env, LAMBDA v : IsAbcSequence(v) \/ IsAbcMapping(v),
                   LAMBDA v : IntV(Len(v.c)), "TypeError")
      [] e.op = "in" ->
           EvalOne(e, env, LAMBDA v : v.k \in {"dict", "list", "tuple", "str"},
                   LAMBDA v : BoolV(In(e.name, v)), "TypeError")
      [] e.op = "ifelse" ->
           LET c == Eval(e.args[1], env)
           IN  IF c.st = "raise" THEN c
               ELSE IF Truthy(c.v) THEN Eval(e.args[2], c.env)
               ELSE Eval(e.args[3], c.env)
      [] e.op = "__match__" ->
           \* the lookup of __match__ on the class fails before the
           \* argument is evaluated
           EvalRaise("AttributeError", env)
      [] e.op = "getattr" ->
           LET o == Eval(e.args[1], env)
           IN  IF o.st = "raise" THEN o
               ELSE LET a == Eval(e.args[2], o.env)
                    IN  IF a.st = "raise" THEN a
                        ELSE LET d == Eval(e.args[3], a.env)
                             IN  IF d.st = "raise" THEN d
                                 ELSE EvalOk(GetAttrOr(o.v, a.v.s, d.v), d.env)

\* eval(text, env): text that is no expression raises SyntaxError before
\* anything is evaluated.
EvalText(e, env) ==
    IF HasHole(e) THEN EvalRaise("SyntaxError", env) ELSE Eval(e, env)

(***************************************************************************)
(* The patterns and the candidate values the model draws its inputs from.  *)
(***************************************************************************)
Seqs(S, n) == UNION {[1..k -> S] : k \in 0..n}
InjSeqs(S, n) == {q \in Seqs(S, n) : \A i, j \in 1..Len(q) : q[i] = q[j] => i = j}

\* Scalars: the constants of a ConstantPattern, and candidates.
Scalars ==
    {IntV(i) : i \in 0..MaxInt} \cup {BoolV(TRUE), BoolV(FALSE)}
    \cup {FloatV(h) : h \in 0..(2 * MaxInt + 1)}
    \cup {StrV(<<>>), StrV(<<1>>), NoneV}

Names == {"x", "y", "_"}
MappingKeys == {"a", "b"}
AttrNames == {"x", "y"}
AnnotatedClasses == {"int", "float", "str"}
InstanceClasses == {"Point", "Plain"}

Leaves ==
    {ConstantPattern(IntV(i)) : i \in 1..MaxInt}
    \cup {VariablePattern(n) : n \in Names}

\* Composite patterns used as sub-patterns: one that binds and then tests,
\* one whose arms bind different names, one that binds a name twice, one of
\* each remaining class, and an InstancePattern of a class that is no
\* dataclass.
Nested ==
    { SequencePattern(<<VariablePattern("x"), ConstantPattern(IntV(1))>>),
      AlternativesPattern(<<VariablePattern("x"), VariablePattern("y")>>),
      WalrusPattern("x", VariablePattern("x")),
      AnnotatedPattern(VariablePattern("y"), "float"),
      MappingPattern(<<"a">>, <<VariablePattern("x")>>),
      InstancePattern("Point", <<VariablePattern("y")>>, <<>>, <<>>),
      InstancePattern("Plain", <<>>, <<>>, <<>>) }

SubPatterns == Leaves \cup Nested

\* The sub-patterns of a node with k children: any of S for a node of up to
\* two children, the leaves of S for a wider one.
Kids(S, k) == IF k <= 2 THEN S ELSE S \cap Leaves

\* The patterns built over the sub-patterns S; a WalrusPattern is built over
\* the empty SequencePattern as well, whose text does not parse.
Composites(S) ==
    UNION {{AlternativesPattern(ps) : ps \in [1..k -> Kids(S, k)]} :
             k \in 0..MaxArity}
    \cup UNION {{SequencePattern(ps) : ps \in [1..k -> Kids(S, k)]} :
                  k \in 0..MaxArity}
    \cup {AnnotatedPattern(q, t) : q \in S, t \in AnnotatedClasses}
    \cup {WalrusPattern(n, q) :
            n \in Names, q \in S \cup {SequencePattern(<<>>)}}
    \cup UNION {{MappingPattern(ks, ps) :
                   ps \in [1..Len(ks) -> Kids(S, Len(ks))]} :
                  ks \in InjSeqs(MappingKeys, MaxArity)}
    \cup UNION {UNION {{InstancePattern(c, pos, ks, ps) :
                          c \in InstanceClasses,
                          pos \in [1..np -> Kids(S, np + Len(ks))],
                          ps \in [1..Len(ks) -> Kids(S, np + Len(ks))]} :
                         ks \in InjSeqs(AttrNames, MaxArity - np)} :
                  np \in 0..MaxArity}

Patterns ==
    {ConstantPattern(c) : c \in Scalars} \cup Leaves \cup Composites(SubPatterns)

\* Values held by the containers among the candidates.
Items == {IntV(1), StrV(<<1>>)}

Candidates ==
    Scalars
    \cup {ListV(q) : q \in Seqs(Items, MaxArity + 1)}
    \cup { TupleV(<<IntV(1), IntV(0)>>),
           ListV(<<ListV(<<IntV(1), IntV(1)>>), IntV(1)>>),
           ListV(<<DictV(<<Entry("a", IntV(1))>>)>>),
           ListV(<<IntV(1), ObjV("Plain", <<>>)>>),
           DictV(<<Entry("a", ObjV("Plain", <<>>))>>),
           StrV(<<1, 2>>), BytesV(<<1, 2>>), ByteArrayV(<<1, 2>>) }
    \cup UNION {{DictV([i \in 1..Len(ks) |-> Entry(ks[i], vs[i])]) :
                   vs \in [1..Len(ks) -> Items]} :
                  ks \in InjSeqs(MappingKeys \cup {"c"}, 2)}
    \cup {DictV(<<Entry("a", ListV(<<IntV(0), IntV(1)>>)), Entry("b", FloatV(3))>>)}
    \cup {ObjV("Point", <<Attr("x", vx), Attr("y", vy)>>) :
            vx \in Items \cup {IntV(0)}, vy \in Items \cup {FloatV(2)}}
    \cup { ObjV("Point", <<Attr("x", IntV(1))>>),
           ObjV("Point", <<Attr("y", IntV(1))>>),
           ObjV("Plain", <<>>),
           ObjV("Plain", <<Attr("x", IntV(1))>>) }

(***************************************************************************)
(* The state: the pattern tree the front-end built, the candidate value,   *)
(* the operation last called on the root node and what it returned.        *)
(***************************************************************************)
VARIABLES pat, val, strict, op, res

vars == <<pat, val, strict, op, res>>

Fresh == [st |-> "new"]

\* pat.match(val)
DoMatch ==
    /\ op \in {"new", "init"}
    /\ op' = "match"
    /\ res' = match(pat, val)
    /\ UNCHANGED <<pat, val, strict>>

\* pat.bindings(strict)
DoBindings ==
    /\ op = "new"
    /\ op' = "bindings"
    /\ strict' \in BOOLEAN
    /\ res' = bindings(pat, strict')
    /\ UNCHANGED <<pat, val>>

InitMatch ==
    /\ pat \in Patterns
    /\ val \in Candidates
    /\ strict = TRUE
    /\ op = "new"
    /\ res = Fresh

SpecMatch == InitMatch /\ [][DoMatch]_vars

\* What evaluating the text left behind: whether it raised, whether its
\* value is truthy, and the environment; frames tells the call of translate
\* the text came from.
Evaluated(run, frames) ==
    [st |-> run.st, exc |-> run.exc,
     truthy |-> run.st = "ok" /\ Truthy(run.v),
     env |-> run.env, frames |-> frames]

\* The environment the text is evaluated in: the target t and _Nope.
TargetEnv(v) == ("t" :> v) @@ ("_Nope" :> NopeV)

EvalTranslated(expr, v, frames) ==
    Evaluated(EvalText(expr, TargetEnv(v)), frames)

\* eval(pat.translate("t")) with t bound to val, translate being called with
\* `frames` frames on the stack.
DoTranslate ==
    /\ op = "new"
    /\ op' = "translate"
    /\ \E frames \in 1..MaxFrames :
         res' = EvalTranslated(translate(pat, NameE("t"), frames), val, frames)
    /\ UNCHANGED <<pat, val, strict>>

\* The text the call of translate returned, once DoTranslate has run.
Translated == translate(pat, NameE("t"), res.frames)

SpecTranslate == InitMatch /\ [][DoTranslate]_vars

\* The front-end builds an InstancePattern over sub-patterns it has built,
\* with up to one positional sub-pattern more than MaxArity, so that there
\* are more of them than Point has fields; pat becomes the new node when the
\* constructor returns one.
Construct ==
    /\ op = "new"
    /\ op' = "init"
    /\ \E cls \in InstanceClasses, np \in 0..(MaxArity + 1) :
         \E kwnames \in InjSeqs(AttrNames, IF np > MaxArity THEN 0
                                            ELSE MaxArity - np) :
           \E posargs \in [1..np -> Kids(SubPatterns, np + Len(kwnames))],
              kwpatterns \in [1..Len(kwnames) ->
                                Kids(SubPatterns, np + Len(kwnames))] :
             /\ res' = InstancePattern_init(cls, posargs, kwnames, kwpatterns)
             /\ pat' = IF res'.st = "ok" THEN res'.node ELSE pat
    /\ UNCHANGED <<val, strict>>

InitConstruct ==
    /\ pat \in Leaves
    /\ val \in {v \in Candidates : TypeOf(v) \in InstanceClasses}
    /\ strict = TRUE
    /\ op = "new"
    /\ res = Fresh

SpecConstruct == InitConstruct /\ [][Construct \/ DoMatch]_vars

InitBindings ==
    /\ pat \in Patterns
    /\ val = NoneV
    /\ strict = TRUE
    /\ op = "new"
    /\ res = Fresh

SpecBindings == InitBindings /\ [][DoBindings]_vars


\* A caller that keeps what match returned and calls match again.  res
\* holds the dict objects made so far and the calls made, each with its
\* pattern, candidate, outcome, the dict object returned and the entries
\* that dict had when the call returned.
Call(p, x, r) ==
    [pat |-> p, val |-> x, st |-> r.st, exc |-> r.exc, ref |-> r.ref,
     map |-> IF r.st = "match" THEN r.heap[r.ref] ELSE NoBindings]

FirstCall ==
    /\ op = "new"
    /\ op' = "call1"
    /\ LET r == match_heap(pat, val, <<>>)
       IN  res' = [heap |-> r.heap, calls |-> <<Call(pat, val, r)>>]
    /\ UNCHANGED <<pat, val, strict>>

\* The next call is the same call again, or the call of a WalrusPattern the
\* front-end has built around the same pattern.
LaterCall ==
    /\ op = "call1"
    /\ op' = "call2"
    /\ \E p \in {pat} \cup {WalrusPattern(n, pat) : n \in Names} :
         /\ pat' = p
         /\ LET r == match_heap(p, val, res.heap)
            IN  res' = [heap |-> r.heap,
                        calls |-> Append(res.calls, Call(p, val, r))]
    /\ UNCHANGED <<val, strict>>

SpecRepeat == InitMatch /\ [][FirstCall \/ LaterCall]_vars

\* A caller that makes two calls on one tree: match, bindings or translate,
\* each on the root or on one of its sub-patterns, keeping what the first
\* call returned.  res holds the tree as the front-end built it, the set and
\* dict objects made so far and the calls made, each with its operation,
\* node, mode, outcome, the object returned and what that object held when
\* the call returned.
UseCandidates ==
    { ListV(<<IntV(1), IntV(1)>>),
      ObjV("Point", <<Attr("x", IntV(1)), Attr("y", IntV(1))>>) }

Children(p) ==
    {p.pats[i] : i \in 1..Len(p.pats)} \cup {p.kwp[i] : i \in 1..Len(p.kwp)}

Used(o, q, s, st, exc, ref, names, map) ==
    [op |-> o, node |-> q, strict |-> s, st |-> st, exc |-> exc, ref |-> ref,
     names |-> names, map |-> map]

AfterCall == IF op = "new" THEN "use1" ELSE "use2"

InitUse ==
    /\ pat \in Patterns
    /\ val \in UseCandidates
    /\ strict = TRUE
    /\ op = "new"
    /\ res = [tree |-> pat, sets |-> <<>>, dicts |-> <<>>, calls |-> <<>>]

\* q.match(val)
UseMatch ==
    /\ op \in {"new", "use1"}
    /\ op' = AfterCall
    /\ \E q \in {pat} \cup Children(pat) :
         LET r == match_heap(q, val, res.dicts)
         IN  res' = [res EXCEPT
                       !.dicts = r.heap,
                       !.calls = Append(@, Used("match", q, FALSE, r.st, r.exc,
                                                r.ref, {},
                                                IF r.st = "match"
                                                THEN r.heap[r.ref]
                                                ELSE NoBindings))]
    /\ UNCHANGED <<pat, val, strict>>

\* q.bindings(strict)
UseBindings ==
    /\ op \in {"new", "use1"}
    /\ op' = AfterCall
    /\ strict' \in BOOLEAN
    /\ \E q \in {pat} \cup Children(pat) :
         LET r == bindings_heap(q, strict', res.sets)
         IN  res' = [res EXCEPT
                       !.sets = r.heap,
                       !.calls = Append(@, Used("bindings", q, strict', r.st,
                                                r.exc, r.ref,
                                                IF r.st = "ok"
                                                THEN r.heap[r.ref] ELSE {},
                                                NoBindings))]
    /\ UNCHANGED <<pat, val>>

\* q.translate("t"): the text is a str, which nothing can change.
UseTranslate ==
    /\ op \in {"new", "use1"}
    /\ op' = AfterCall
    /\ \E q \in {pat} \cup Children(pat) :
         LET text == translate(q, NameE("t"), 1)
         IN  res' = [res EXCEPT
                       !.calls = Append(@, Used("translate", q, FALSE,
                                                IF HasHole(text) THEN "hole"
                                                ELSE "ok",
                                                "", 0, {}, NoBindings))]
    /\ UNCHANGED <<pat, val, strict>>

SpecUse == InitUse /\ [][UseMatch \/ UseBindings \/ UseTranslate]_vars

(***************************************************************************)
(* The three operations step by step.  A call in progress is a stack of    *)
(* frames, one per method call that has not returned: the node, the        *)
(* candidate (match), the mode (bindings), the index of the sub-pattern    *)
(* the method calls next and the names collected so far (bindings).  A     *)
(* step is one method calling the method of a sub-pattern, or one method   *)
(* returning or raising to its caller; res.ret is what the call that      *)
(* returned last handed to its caller, res.outs what the top-level calls   *)
(* handed to theirs.                                                       *)
(***************************************************************************)
Frame(q, x, s) == [node |-> q, x |-> x, strict |-> s, next |-> 1, acc |-> {}]
Outcome(st, exc, names) == [st |-> st, exc |-> exc, names |-> names]
NoRet == Outcome("", "", {})

\* The sub-patterns of a node in the order its methods walk them.
KidsOf(p) == p.pats \o p.kwp

\* What the method in the top frame does next: it calls its next sub-pattern
\* (on x, in mode strict, with acc collected), or it returns.
CallKid(x, s, acc) ==
    [do |-> "call", x |-> x, strict |-> s, acc |-> acc, out |-> NoRet]
Return(st, exc, names) ==
    [do |-> "return", x |-> NoneV, strict |-> TRUE, acc |-> {},
     out |-> Outcome(st, exc, names)]
ReturnThat(ret) == Return(ret.st, ret.exc, ret.names)

\* The attribute the k-th sub-pattern of an InstancePattern is matched on:
\* the k-th field of x's class for a positional one, its keyword otherwise.
AttrOfKid(p, x, k) ==
    IF k <= Len(p.pats) THEN DataclassFields(TypeOf(x))[k]
    ELSE p.kwn[k - Len(p.pats)]

\* Has x the item, key or attribute the k-th sub-pattern is matched on, and
\* what is it?
KidPresent(p, x, k) ==
    CASE p.tag = "MappingPattern" -> HasKey(x, p.kwn[k])
      [] p.tag = "InstancePattern" -> HasAttr(x, AttrOfKid(p, x, k))
      [] OTHER -> TRUE
KidValue(p, x, k) ==
    CASE p.tag = "SequencePattern" -> GetItem(x, k - 1)
      [] p.tag = "MappingPattern" -> GetKey(x, p.kwn[k])
      [] p.tag = "InstancePattern" -> GetAttr(x, AttrOfKid(p, x, k))
      [] OTHER -> x

\* The loop of SequencePattern, MappingPattern and InstancePattern.match: it
\* goes on while the sub-patterns match.
MatchAll(f, ret) ==
    IF f.next > 1 /\ ret.st # "match" THEN ReturnThat(ret)
    ELSE IF f.next > Len(KidsOf(f.node)) THEN Return("match", "", {})
    ELSE IF ~KidPresent(f.node, f.x, f.next) THEN Return("none", "", {})
    ELSE CallKid(KidValue(f.node, f.x, f.next), TRUE, {})

MatchStep(f, ret) ==
    LET p == f.node
        x == f.x
        i == f.next
    IN  CASE p.tag = "ConstantPattern" ->
               IF _is_instance(x, TypeOf(p.const)) /\ PyEq(x, p.const)
               THEN Return("match", "", {}) ELSE Return("none", "", {})
          [] p.tag = "VariablePattern" -> Return("match", "", {})
          [] p.tag = "AlternativesPattern" ->
               IF i > 1 /\ ret.st # "none" THEN ReturnThat(ret)
               ELSE IF i > Len(p.pats) THEN Return("none", "", {})
               ELSE CallKid(x, TRUE, {})
          [] p.tag = "AnnotatedPattern" ->
               IF i > 1 THEN ReturnThat(ret)
               ELSE IF _is_instance(x, p.cls) THEN CallKid(x, TRUE, {})
               ELSE Return("none", "", {})
          [] p.tag = "SequencePattern" ->
               IF /\ IsAbcSequence(x)
                  /\ ~(IsInstance(x, "str") \/ IsInstance(x, "bytes"))
                  /\ PyLen(x) = Len(p.pats)
               THEN MatchAll(f, ret)
               ELSE Return("none", "", {})
          [] p.tag = "MappingPattern" ->
               IF ~IsAbcMapping(x) THEN Return("none", "", {})
               ELSE MatchAll(f, ret)
          [] p.tag = "InstancePattern" ->
               IF ~_is_instance(x, p.cls) THEN Return("none", "", {})
               ELSE IF ~IsDataclass(TypeOf(x)) THEN Return("raise", "TypeError", {})
               ELSE IF Len(p.pats) > Len(DataclassFields(TypeOf(x)))
               THEN Return("none", "", {})
               ELSE MatchAll(f, ret)
          [] p.tag = "WalrusPattern" ->
               IF i > 1 THEN ReturnThat(ret) ELSE CallKid(x, TRUE, {})

\* The loop of SequencePattern, MappingPattern and InstancePattern.bindings.
BindingsAll(f, ret) ==
    LET acc == f.acc \cup ret.names
    IN  IF f.next > 1 /\ ret.st = "raise" THEN ReturnThat(ret)
        ELSE IF f.next > 1 /\ f.strict /\ (ret.names \cap f.acc) # {}
        THEN Return("raise", "DuplicateBindings", {})
        ELSE IF f.next > Len(KidsOf(f.node)) THEN Return("ok", "", acc)
        ELSE CallKid(NoneV, f.strict, acc)

BindingsStep(f, ret) ==
    LET p == f.node
        i == f.next
    IN  CASE p.tag = "ConstantPattern" -> Return("ok", "", {})
          [] p.tag = "VariablePattern" ->
               Return("ok", "", IF p.name = "_" THEN {} ELSE {p.name})
          [] p.tag = "AlternativesPattern" ->
               IF p.pats = <<>> THEN Return("ok", "", {})
               ELSE IF i = 1 THEN CallKid(NoneV, f.strict, {})
               ELSE IF ret.st = "raise" THEN ReturnThat(ret)
               ELSE IF i > 2 /\ f.strict /\ ret.names # f.acc
               THEN Return("raise", "InconsistentBindings", {})
               ELSE IF i > Len(p.pats) THEN Return("ok", "", f.acc \cup ret.names)
               ELSE CallKid(NoneV, TRUE, f.acc \cup ret.names)
          [] p.tag = "AnnotatedPattern" ->
               IF i > 1 THEN ReturnThat(ret) ELSE CallKid(NoneV, f.strict, {})
          [] p.tag \in {"SequencePattern", "MappingPattern", "InstancePattern"} ->
               BindingsAll(f, ret)
          [] p.tag = "WalrusPattern" ->
               IF i = 1 THEN CallKid(NoneV, f.strict, {})
               ELSE IF ret.st = "raise" \/ p.name = "_" THEN ReturnThat(ret)
               ELSE IF f.strict /\ p.name \in ret.names
               THEN Return("raise", "DuplicateBindings", {})
               ELSE Return("ok", "", ret.names \cup {p.name})

\* translate calls the translate of every sub-pattern, in order.
TranslateStep(f, ret) ==
    IF f.next > Len(KidsOf(f.node)) THEN Return("ok", "", {})
    ELSE CallKid(NoneV, TRUE, {})

StepOf(o, f, ret) ==
    CASE o = "match" -> MatchStep(f, ret)
      [] o = "bindings" -> BindingsStep(f, ret)
      [] o = "translate" -> TranslateStep(f, ret)

\* A variant in which the loop does not move on.
Advance_stay(f, acc) == [f EXCEPT !.acc = acc]
\* The calling frame once the call is made: the loop has moved on.
Advance(f, acc) == [f EXCEPT !.next = @ + 1, !.acc = acc]

InitRun ==
    /\ pat \in Patterns
    /\ val \in UseCandidates
    /\ strict = TRUE
    /\ op = "new"
    /\ res = [stack |-> <<>>, ret |-> NoRet, outs |-> <<>>]

\* A top-level call: the first, or the same call again once it has returned.
MayStart(o) ==
    /\ res.stack = <<>>
    /\ (op = "new" \/ (op = o /\ Len(res.outs) = 1))
    /\ op' = o
    /\ res' = [res EXCEPT !.stack = <<Frame(pat, val, strict')>>,
                          !.ret = NoRet]
    /\ UNCHANGED <<pat, val>>

StartMatch == strict' = strict /\ MayStart("match")
StartBindings ==
    /\ IF op = "new" THEN strict' \in BOOLEAN ELSE strict' = strict
    /\ MayStart("bindings")
StartTranslate == strict' = strict /\ MayStart("translate")

\* The method in the top frame calls the method of its next sub-pattern.
CallStep ==
    /\ res.stack # <<>>
    /\ LET n == Len(res.stack)
           f == res.stack[n]
           d == StepOf(op, f, res.ret)
       IN  /\ d.do = "call"
           /\ res' = [res EXCEPT
                        !.stack = Append([@ EXCEPT ![n] = Advance(f, d.acc)],
                                         Frame(KidsOf(f.node)[f.next], d.x,
                                               d.strict)),
                        !.ret = NoRet]
    /\ UNCHANGED <<pat, val, strict, op>>

\* The method in the top frame returns, or raises, to its caller.
ReturnStep ==
    /\ res.stack # <<>>
    /\ LET n == Len(res.stack)
           d == StepOf(op, res.stack[n], res.ret)
       IN  /\ d.do = "return"
           /\ res' = [stack |-> SubSeq(res.stack, 1, n - 1),
                      ret |-> d.out,
                      outs |-> IF n = 1 THEN Append(res.outs, d.out)
                               ELSE res.outs]
    /\ UNCHANGED <<pat, val, strict, op>>

NextRun ==
    StartMatch \/ StartBindings \/ StartTranslate \/ CallStep \/ ReturnStep

\* A method that is running takes its next step.
SpecRun == InitRun /\ [][NextRun]_vars /\ WF_vars(CallStep \/ ReturnStep)

\* Trees with an InstancePattern inside an InstancePattern, for translate:
\* the inner node is a sub-pattern of the outer one directly or through one
\* or two nodes of any class, and the outer node has a field left to test
\* after it.  The candidates are Point objects whose x holds what the chain
\* asks for (or does not).
InnerInstances ==
    { InstancePattern("Point", <<VariablePattern("x")>>, <<>>, <<>>),
      InstancePattern("Point", <<>>, <<"y">>, <<ConstantPattern(IntV(1))>>),
      InstancePattern("Plain", <<>>, <<>>, <<>>) }

Links(S) ==
    {AnnotatedPattern(q, c) : q \in S, c \in InstanceClasses}
    \cup {SequencePattern(<<q>>) : q \in S}
    \cup {MappingPattern(<<"a">>, <<q>>) : q \in S}
    \cup {AlternativesPattern(<<ConstantPattern(IntV(1)), q>>) : q \in S}
    \cup {WalrusPattern("x", q) : q \in S}
    \cup {InstancePattern("Point", <<>>, <<"x">>, <<q>>) : q \in S}

Chains == InnerInstances \cup Links(InnerInstances) \cup Links(Links(InnerInstances))

NestedInstances ==
    {InstancePattern("Point", <<q, VariablePattern("y")>>, <<>>, <<>>) :
       q \in Chains}
    \cup {InstancePattern("Point", <<>>, <<"x", "y">>, <<q, VariablePattern("y")>>) :
            q \in Chains}

PointV(vx, vy) == ObjV("Point", <<Attr("x", vx), Attr("y", vy)>>)

Wraps(S) ==
    S \cup {ListV(<<v>>) : v \in S}
      \cup {DictV(<<Entry("a", v)>>) : v \in S}
      \cup {PointV(v, IntV(1)) : v \in S}

NestedCandidates ==
    {PointV(v, IntV(0)) :
       v \in Wraps(Wraps({PointV(IntV(1), IntV(1)), ObjV("Plain", <<>>)}))}

InitNested ==
    /\ pat \in NestedInstances
    /\ val \in NestedCandidates
    /\ strict = TRUE
    /\ op = "new"
    /\ res = Fresh

SpecNested == InitNested /\ [][DoTranslate]_vars

(***************************************************************************)
(* Claims about construction.                                              *)
(***************************************************************************)
\* More positional sub-patterns than the class declares fields, or a
\* positional field that is also named by a keyword sub-pattern.
Malformed(cls, npos, kwnames) ==
    \/ npos > Len(DataclassFields(cls))
    \/ \E i \in 1..npos : \E j \in 1..Len(kwnames) :
         DataclassFields(cls)[i] = kwnames[j]

\* C6: constructing an InstancePattern with more positional sub-patterns
\* than the class declares fields, or with a positional field that is also a
\* keyword name, raises MalformedPattern and yields no node.
C6_MalformedRaises ==
    (op = "init" /\ Malformed(res.node.cls, Len(res.node.pats), res.node.kwn))
        => (res.st = "raise" /\ res.exc = "MalformedPattern")

\* C6 as amended: constructing an InstancePattern never raises, malformed or
\* not; the node holds the arguments as given.  More positional sub-patterns
\* than fields are found by match only, which returns None for a dataclass
\* candidate.
C6_ConstructionUnchecked ==
    /\ op = "init" => (res.st = "ok" /\ pat = res.node)
    /\ (/\ op = "match" /\ pat.tag = "InstancePattern"
        /\ IsDataclass(TypeOf(val))
        /\ Len(pat.pats) > Len(DataclassFields(TypeOf(val))))
           => res.st = "none"

\* C6 witness: a node with more positional sub-patterns than Point has
\* fields was constructed, and match on a Point returned None.
C6_Witness ==
    /\ op = "match" /\ pat.tag = "InstancePattern" /\ pat.cls = "Point"
    /\ Len(pat.pats) > Len(DataclassFields("Point"))
    /\ TypeOf(val) = "Point" /\ res.st = "none"

(***************************************************************************)
(* Claims about match.                                                     *)
(***************************************************************************)
\* The dicts of a sequence of outcomes merged in order, as dict.update does.
RECURSIVE MergeAll(_)
MergeAll(rs) ==
    IF rs = <<>> THEN NoBindings
    ELSE Update(MergeAll(SubSeq(rs, 1, Len(rs) - 1)), rs[Len(rs)].b)

\* The child indexes whose match was called by the root call.
Visited(ev) == {ev[j][1] : j \in {l \in 1..Len(ev) : ev[l] # <<>>}}

CalledMatch(tag) == op = "match" /\ pat.tag = tag

\* C1: a VariablePattern matches every candidate; match returns {name: v}
\* for a name other than "_" and {} for the wildcard "_".
C1_VariableTotal ==
    CalledMatch("VariablePattern") =>
        /\ res.st = "match"
        /\ res.b = IF pat.name = "_" THEN NoBindings ELSE (pat.name :> val)

\* C2: match returns a dict or None for every pattern tree and every
\* candidate; no exception leaves it.
C2_MatchNeverRaises == op = "match" => res.st \in {"match", "none"}

\* C7: a ConstantPattern matches, with {}, exactly the candidates whose class
\* is a subclass of the constant's class (an int also where the constant is a
\* float, never a float where it is an int) and that equal the constant;
\* every other candidate gets None.
C7_TypeConforms(v, c) ==
    \/ IsSubclass(TypeOf(v), TypeOf(c))
    \/ TypeOf(c) = "float" /\ IsSubclass(TypeOf(v), "int")
C7_ConstantMatch ==
    CalledMatch("ConstantPattern") =>
        IF C7_TypeConforms(val, pat.const) /\ PyEq(val, pat.const)
        THEN res.st = "match" /\ res.b = NoBindings
        ELSE res.st = "none"

\* C7 witness: an int candidate was accepted by a float constant it equals.
C7_Witness ==
    /\ CalledMatch("ConstantPattern")
    /\ TypeOf(pat.const) = "float" /\ TypeOf(val) = "int"
    /\ res.st = "match"

\* C8: an AlternativesPattern returns the dict of its first arm whose match
\* is not None and calls no later arm; it returns None when every arm
\* returns None, also when it has no arm.
C8_Arm(i) == match(pat.pats[i], val)
C8_AlternativesFirstArm ==
    CalledMatch("AlternativesPattern") =>
        LET hits == {i \in 1..Len(pat.pats) : C8_Arm(i).st = "match"}
        IN  IF hits = {} THEN res.st = "none"
            ELSE LET first == CHOOSE i \in hits : \A j \in hits : i <= j
                 IN  /\ res.st = "match"
                     /\ res.b = C8_Arm(first).b
                     /\ Visited(res.ev) = 1..first

\* C9: a SequencePattern returns None for a str or bytes candidate, for a
\* candidate that is no sequence and for one whose length is not the number
\* of sub-patterns; otherwise it matches item i against sub-pattern i,
\* returns None at the first item that fails, and on success returns the
\* merge of the items' dicts.
C9_Item(i) == match(pat.pats[i], GetItem(val, i - 1))
C9_SequenceMatch ==
    CalledMatch("SequencePattern") =>
        IF \/ TypeOf(val) \in {"str", "bytes"}
           \/ ~IsAbcSequence(val)
           \/ PyLen(val) # Len(pat.pats)
        THEN res.st = "none" /\ Visited(res.ev) = {}
        ELSE LET fails == {i \in 1..Len(pat.pats) : C9_Item(i).st # "match"}
             IN  IF fails = {}
                 THEN /\ res.st = "match"
                      /\ res.b = MergeAll([i \in 1..Len(pat.pats) |-> C9_Item(i)])
                 ELSE /\ res.st = "none"
                      /\ Visited(res.ev) =
                           1..(CHOOSE i \in fails : \A j \in fails : i <= j)

\* C10: a MappingPattern returns None for a candidate that is no mapping and
\* when a listed key is absent from it; keys it does not list neither fail
\* the match nor bind; on success the result is the merge of the dicts of
\* the listed keys' sub-patterns matched against the keys' values.
C10_Value(i) == match(pat.kwp[i], GetKey(val, pat.kwn[i]))
C10_MappingMatch ==
    CalledMatch("MappingPattern") =>
        IF \/ ~IsAbcMapping(val)
           \/ \E i \in 1..Len(pat.kwn) : ~HasKey(val, pat.kwn[i])
        THEN res.st = "none"
        ELSE IF \E i \in 1..Len(pat.kwp) : C10_Value(i).st # "match"
        THEN res.st = "none"
        ELSE /\ res.st = "match"
             /\ res.b = MergeAll([i \in 1..Len(pat.kwp) |-> C10_Value(i)])


\* C8, where it holds: in every state where no exception left the call.
C8_WhenReturning ==
    (op = "match" /\ res.st = "raise") \/ C8_AlternativesFirstArm

\* C9, where it holds: in every state where no exception left the call.
C9_WhenReturning ==
    (op = "match" /\ res.st = "raise") \/ C9_SequenceMatch

\* C10, where it holds: in every state where no exception left the call.
C10_WhenReturning ==
    (op = "match" /\ res.st = "raise") \/ C10_MappingMatch

\* The children of the InstancePattern pat in call order, its posargs and
\* then its kwargs, each with the attribute of val it is matched against:
\* the i-th declared field of val's class, or the keyword's name.
C11_Fields == DataclassFields(TypeOf(val))
C11_Count == Len(pat.pats) + Len(pat.kwp)
C11_AttrName(i) ==
    IF i <= Len(pat.pats) THEN C11_Fields[i] ELSE pat.kwn[i - Len(pat.pats)]
C11_Kid(i) ==
    IF i <= Len(pat.pats) THEN pat.pats[i] ELSE pat.kwp[i - Len(pat.pats)]
C11_Sub(i) == match(C11_Kid(i), GetAttr(val, C11_AttrName(i)))
\* Every child before the i-th found its attribute and matched it.
C11_Reached(i) ==
    \A j \in 1..(i - 1) :
        HasAttr(val, C11_AttrName(j)) /\ C11_Sub(j).st = "match"
\* A Point whose x is the falsy 0 had it bound by a positional sub-pattern.
C11_FalsyHandedOn ==
    /\ CalledMatch("InstancePattern") /\ TypeOf(val) = "Point"
    /\ HasAttr(val, "x") /\ GetAttr(val, "x") = IntV(0)
    /\ Len(pat.pats) >= 1 /\ pat.pats[1] = VariablePattern("x")
    /\ res.st = "match" /\ res.b["x"] = IntV(0)

\* C11: an InstancePattern whose candidate passes the type test returns None
\* at a field whose attribute the candidate does not have, without calling
\* the field's sub-pattern; an attribute that is there, falsy or not, is
\* handed to the sub-pattern, whose outcome decides.
C11_MissingVersusFalsy ==
    (/\ CalledMatch("InstancePattern")
     /\ _is_instance(val, pat.cls)
     /\ Len(pat.pats) <= Len(C11_Fields)) =>
        \A i \in 1..C11_Count :
            C11_Reached(i) =>
                IF ~HasAttr(val, C11_AttrName(i))
                THEN res.st = "none" /\ i \notin Visited(res.ev)
                ELSE /\ i \in Visited(res.ev)
                     /\ C11_Sub(i).st = "none" => res.st = "none"
                     /\ (C11_Sub(i).st = "match" /\ i = C11_Count)
                            => res.st = "match"

\* C11, where it holds: in every state where no exception left the call.
C11_WhenReturning ==
    (op = "match" /\ res.st = "raise") \/ C11_MissingVersusFalsy

\* C12: an InstancePattern returns None for a candidate that fails the type
\* test and when it has more positional sub-patterns than the candidate's
\* class declares fields; otherwise positional sub-pattern i is matched
\* against declared field i, each keyword sub-pattern against the attribute
\* of its name, a sub-pattern that fails gives None, and success returns the
\* merge of the sub-patterns' dicts.
C12_InstanceMatch ==
    CalledMatch("InstancePattern") =>
        IF ~_is_instance(val, pat.cls) \/ Len(pat.pats) > Len(C11_Fields)
        THEN res.st = "none" /\ Visited(res.ev) = {}
        ELSE IF \E i \in 1..C11_Count :
                   ~HasAttr(val, C11_AttrName(i)) \/ C11_Sub(i).st # "match"
        THEN res.st = "none"
        ELSE /\ res.st = "match"
             /\ res.b = MergeAll([i \in 1..C11_Count |-> C11_Sub(i)])

\* C12, where it holds: in every state where no exception left the call.
C12_WhenReturning ==
    (op = "match" /\ res.st = "raise") \/ C12_InstanceMatch

\* C13: an AnnotatedPattern returns None for a candidate whose class does not
\* conform to the declared class (an int conforms to float, a float does not
\* conform to int) without calling the inner pattern; for one that conforms
\* the outcome is the inner pattern's outcome on the same candidate,
\* unchanged.
C13_Inner == match(pat.pats[1], val)
C13_Conforms ==
    \/ IsSubclass(TypeOf(val), pat.cls)
    \/ pat.cls = "float" /\ IsSubclass(TypeOf(val), "int")
C13_AnnotatedMatch ==
    CalledMatch("AnnotatedPattern") =>
        IF C13_Conforms
        THEN /\ res.st = C13_Inner.st
             /\ res.b = C13_Inner.b
             /\ res.exc = C13_Inner.exc
             /\ 1 \in Visited(res.ev)
        ELSE res.st = "none" /\ Visited(res.ev) = {}

\* C13 witness: an int candidate passed a float annotation and the inner
\* pattern's dict came back.
C13_Witness ==
    /\ CalledMatch("AnnotatedPattern")
    /\ pat.cls = "float" /\ TypeOf(val) = "int"
    /\ res.st = "match" /\ res.b # NoBindings

\* C14: a WalrusPattern returns None exactly when its inner pattern returns
\* None; when the inner pattern succeeds the result is the inner dict with
\* name -> candidate added, in place of an entry of that name the inner
\* pattern made.
C14_Inner == match(pat.pats[1], val)
C14_WalrusMatch ==
    CalledMatch("WalrusPattern") =>
        /\ res.st = "none" <=> C14_Inner.st = "none"
        /\ C14_Inner.st = "match" =>
             /\ res.st = "match"
             /\ DOMAIN res.b = DOMAIN C14_Inner.b \cup {pat.name}
             /\ \A n \in DOMAIN res.b :
                  res.b[n] = IF n = pat.name THEN val ELSE C14_Inner.b[n]

\* C14 witness: the inner pattern bound the walrus' name to a part of the
\* candidate, and the result binds it to the whole candidate.
C14_Witness ==
    /\ CalledMatch("WalrusPattern")
    /\ C14_Inner.st = "match"
    /\ pat.name \in DOMAIN C14_Inner.b
    /\ C14_Inner.b[pat.name] # val
    /\ res.st = "match" /\ res.b[pat.name] = val

\* C15: match is repeatable.  A second call with the same pattern and
\* candidate has the outcome of the first, and the dict a call returned
\* still has the entries it was returned with after a later call, also one
\* in which a WalrusPattern stored its own name.
C15_MatchRepeatable ==
    op = "call2" =>
        LET c1 == res.calls[1]
            c2 == res.calls[2]
        IN  /\ (c2.pat = c1.pat /\ c2.val = c1.val) =>
                 (c2.st = c1.st /\ c2.exc = c1.exc /\ c2.map = c1.map)
            /\ c1.st = "match" => res.heap[c1.ref] = c1.map

\* C15 witness: after a call returned a dict, a WalrusPattern around the
\* same pattern returned one with its own name added, a name the first dict
\* does not have.
C15_Witness ==
    /\ op = "call2"
    /\ res.calls[1].st = "match" /\ res.calls[2].st = "match"
    /\ res.calls[2].pat = WalrusPattern("y", res.calls[1].pat)
    /\ "y" \notin DOMAIN res.calls[1].map
    /\ "y" \in DOMAIN res.calls[2].map

(***************************************************************************)
(* Claims about bindings.                                                  *)
(***************************************************************************)
\* The names other than "_" of the VariablePattern and WalrusPattern nodes
\* of a tree.
RECURSIVE AllNames(_)
AllNames(p) ==
    (IF p.tag \in {"VariablePattern", "WalrusPattern"} THEN {p.name} \ {"_"}
     ELSE {})
    \cup UNION {AllNames(p.pats[i]) : i \in 1..Len(p.pats)}
    \cup UNION {AllNames(p.kwp[i]) : i \in 1..Len(p.kwp)}

\* C3: bindings(strict=False) raises for no pattern tree, whatever conflicts
\* the tree holds and wherever they are, and returns the union of the names
\* other than "_" bound anywhere in the tree.
C3_NonStrictNeverRaises ==
    (op = "bindings" /\ ~strict) =>
        /\ res.st = "ok"
        /\ res.names = AllNames(pat)

\* C3, where it holds: when no exception leaves the call, the set returned
\* by bindings(strict=False) is the union of the names of the tree.
C3_WhenReturning ==
    (op = "bindings" /\ ~strict /\ res.st = "ok") => res.names = AllNames(pat)


\* The name sets of the sub-patterns of pat, each asked in strict mode, in
\* the order bindings asks them.
C16_Kids == pat.pats \o pat.kwp
C16_Sub(i) == bindings(C16_Kids[i], TRUE)
C16_Before(i) == UNION {C16_Sub(j).names : j \in 1..(i - 1)}
CalledStrict(tags) == op = "bindings" /\ strict /\ pat.tag \in tags

\* C16: strict bindings of an AlternativesPattern returns the empty set for
\* no arm and the first arm's set when every arm binds that set; at the
\* first later arm whose set differs, by a missing or by an extra name, it
\* raises InconsistentBindings, reporting that arm's index (counted from 0)
\* and the symmetric difference of the two sets.  An arm whose own bindings
\* raises ends the call with that exception.
C16_Offends(i) ==
    C16_Sub(i).st = "raise" \/ C16_Sub(i).names # C16_Sub(1).names
C16_AlternativesStrict ==
    CalledStrict({"AlternativesPattern"}) =>
        LET bad == {i \in 1..Len(pat.pats) : C16_Offends(i)}
        IN  IF bad = {} THEN
                /\ res.st = "ok"
                /\ res.names = IF pat.pats = <<>> THEN {}
                               ELSE C16_Sub(1).names
            ELSE LET i == CHOOSE k \in bad : \A j \in bad : k <= j
                     b == C16_Sub(i)
                     first == C16_Sub(1).names
                 IN  IF b.st = "raise" THEN res = b
                     ELSE /\ res.st = "raise"
                          /\ res.exc = "InconsistentBindings"
                          /\ res.arm = i - 1
                          /\ res.diff = (b.names \ first) \cup (first \ b.names)

\* C16 witness: a later arm that binds no name at all, where the first arm
\* binds one, raised InconsistentBindings.
C16_Witness ==
    /\ CalledStrict({"AlternativesPattern"})
    /\ Len(pat.pats) >= 2
    /\ C16_Sub(1).st = "ok" /\ C16_Sub(1).names # {}
    /\ C16_Sub(2).st = "ok" /\ C16_Sub(2).names = {}
    /\ res.st = "raise" /\ res.exc = "InconsistentBindings" /\ res.arm = 1

\* C17: strict bindings of a SequencePattern, MappingPattern or
\* InstancePattern raises DuplicateBindings at the first sub-pattern that
\* binds a name an earlier sibling binds (a positional and a keyword
\* sub-pattern of an InstancePattern are siblings), and of a WalrusPattern
\* when its own name, other than "_", is in its inner pattern's set; when no
\* name repeats it returns the union of the sub-patterns' sets, with the
\* WalrusPattern's own name.  A sub-pattern whose own bindings raises ends
\* the call with that exception.
C17_Offends(i) ==
    C16_Sub(i).st = "raise" \/ (C16_Sub(i).names \cap C16_Before(i)) # {}
C17_DuplicateStrict ==
    /\ CalledStrict({"SequencePattern", "MappingPattern", "InstancePattern"}) =>
        LET bad == {i \in 1..Len(C16_Kids) : C17_Offends(i)}
        IN  IF bad = {} THEN
                /\ res.st = "ok"
                /\ res.names = C16_Before(Len(C16_Kids) + 1)
            ELSE LET i == CHOOSE k \in bad : \A j \in bad : k <= j
                     b == C16_Sub(i)
                 IN  IF b.st = "raise" THEN res = b
                     ELSE /\ res.st = "raise"
                          /\ res.exc = "DuplicateBindings"
                          /\ res.diff = b.names \cap C16_Before(i)
    /\ CalledStrict({"WalrusPattern"}) =>
        LET b == C16_Sub(1)
        IN  IF b.st = "raise" THEN res = b
            ELSE IF pat.name # "_" /\ pat.name \in b.names
            THEN res.st = "raise" /\ res.exc = "DuplicateBindings"
            ELSE /\ res.st = "ok"
                 /\ res.names = b.names \cup ({pat.name} \ {"_"})

\* C17 witness: an InstancePattern whose positional and keyword sub-patterns
\* bind one name raised DuplicateBindings.
C17_Witness ==
    /\ CalledStrict({"InstancePattern"})
    /\ Len(pat.pats) = 1 /\ Len(pat.kwp) = 1
    /\ C16_Sub(1).st = "ok" /\ C16_Sub(2).st = "ok"
    /\ (C16_Sub(1).names \cap C16_Sub(2).names) # {}
    /\ res.st = "raise" /\ res.exc = "DuplicateBindings"

(***************************************************************************)
(* Claims about translate.                                                 *)
(***************************************************************************)
\* The temporaries an InstancePattern's text assigns.
Temporaries ==
    {pre \o ToString(d) : pre \in {"_t", "_f", "_i"}, d \in 1..(MaxFrames + 9)}

\* The names the evaluation wrote, with their values, temporaries aside.
Written(env) ==
    [n \in DOMAIN env \ ({"t", "_Nope"} \cup Temporaries) |-> env[n]]

\* C4: the translated text, evaluated with the target bound to v, is truthy
\* exactly when match(p, v) is not None, and then the names it wrote and
\* their values are the dict match(p, v) returns.
C4_TranslateAgreesWithMatch ==
    op = "translate" =>
        LET m == match(pat, val)
        IN  /\ res.truthy <=> m.st = "match"
            /\ res.truthy => Written(res.env) = m.b

\* C5: the type guard of the text translated from a ConstantPattern or an
\* AnnotatedPattern lets an int pass where the constant or the annotation is
\* a float, and does not let a float pass where it is an int.
C5_Expected(p) == IF p.tag = "ConstantPattern" THEN TypeOf(p.const) ELSE p.cls
C5_Guard(p, expr) ==
    IF p.tag = "ConstantPattern" THEN expr.args[2] ELSE expr.args[1]
C5_GuardPasses(p, expr, v) ==
    LET r == Eval(C5_Guard(p, expr), TargetEnv(v))
    IN  r.st = "ok" /\ Truthy(r.v)
C5_NumericGuard ==
    (/\ op = "translate"
     /\ pat.tag \in {"ConstantPattern", "AnnotatedPattern"}
     /\ C5_Expected(pat) \in {"int", "float"}) =>
        /\ (C5_Expected(pat) = "float" /\ TypeOf(val) = "int")
             => C5_GuardPasses(pat, Translated, val)
        /\ (C5_Expected(pat) = "int" /\ TypeOf(val) = "float")
             => ~C5_GuardPasses(pat, Translated, val)

\* C5, where it holds: the guard of a ConstantPattern's text.
C5_ConstantGuard == pat.tag = "ConstantPattern" => C5_NumericGuard

\* The operands of the chain the text of pat is: the texts of its
\* sub-patterns in order, each with the element of val it tests (the
\* candidate itself for an arm, an item, a key's value), whether val has
\* that element, and the guard that stands before them all.
C18_Chains == {"AlternativesPattern", "SequencePattern", "MappingPattern"}
C18_Guard ==
    CASE pat.tag = "SequencePattern" ->
           IsAbcSequence(val) /\ PyLen(val) = Len(pat.pats)
      [] pat.tag = "MappingPattern" -> IsAbcMapping(val)
      [] OTHER -> TRUE
C18_Present(i) ==
    CASE pat.tag = "MappingPattern" -> HasKey(val, pat.kwn[i])
      [] OTHER -> TRUE
C18_Value(i) ==
    CASE pat.tag = "SequencePattern" -> GetItem(val, i - 1)
      [] pat.tag = "MappingPattern" -> GetKey(val, pat.kwn[i])
      [] OTHER -> val

\* What evaluating the operands from the i-th on, left to right, comes to,
\* w being the names written so far: an or-chain stops at the first truthy
\* operand, an and-chain at the first element that is not there or whose
\* operand is falsy, and either at the first operand that raises.
RECURSIVE C18_Walk(_, _)
C18_Walk(i, w) ==
    LET isOr == pat.tag = "AlternativesPattern"
    IN  IF i > Len(C16_Kids) THEN [exc |-> "", truthy |-> ~isOr, w |-> w]
        ELSE IF ~C18_Present(i) THEN [exc |-> "", truthy |-> FALSE, w |-> w]
        ELSE LET r == EvalText(translate(C16_Kids[i], NameE("t"), res.frames),
                               TargetEnv(C18_Value(i)))
                 hit == r.st = "ok" /\ Truthy(r.v)
                 w2 == Written(r.env) @@ w
             IN  IF r.st = "raise" \/ hit = isOr
                 THEN [exc |-> r.exc, truthy |-> hit, w |-> w2]
                 ELSE C18_Walk(i + 1, w2)

\* Is p, or a pattern below it, an InstancePattern (whose text calls
\* __match__)?
RECURSIVE C18_HasInstance(_)
C18_HasInstance(p) ==
    p.tag = "InstancePattern"
    \/ \E i \in 1..Len(KidsOf(p)) : C18_HasInstance(KidsOf(p)[i])

\* The conditions of an InstancePattern's text e stand in guarded order: the
\* class test first; before any positional field the tests that the field
\* list is there, is a sequence and is long enough for every index used;
\* and each sub-pattern's text right after the test that stages, under the
\* name that text reads, the attribute it is about and finds it present.
C18_InstanceOrder(e) ==
    LET npos == Len(pat.pats)
        first == IF npos > 0 THEN 4 ELSE 1
        staged == e.args[1].args[1].name
    IN  /\ e.op = "and"
        /\ e.args[1].op = "isnot" /\ e.args[1].args[2] = LitE(NoneV)
        /\ e.args[1].args[1].op = "walrus"
        /\ e.args[1].args[1].args[1].op = "__match__"
        /\ Len(e.args) = first + 2 * Len(C16_Kids)
        /\ npos > 0 =>
             LET f == e.args[2].args[1].name
             IN  /\ e.args[2].op = "isnot" /\ e.args[2].args[1].op = "walrus"
                 /\ e.args[3] = IsInstanceE(NameE(f), "Sequence")
                 /\ e.args[4] = GeE(LenE(NameE(f)), LitE(IntV(npos)))
                 /\ \A k \in 1..npos :
                        e.args[first + 2 * k - 1].args[1].args[1].args[2]
                            = IndexE(NameE(f), k - 1)
        /\ \A k \in 1..Len(C16_Kids) :
               LET g == e.args[first + 2 * k - 1]
               IN  /\ g.op = "isnot" /\ g.args[2] = NameE("_Nope")
                   /\ g.args[1].op = "walrus"
                   /\ g.args[1].args[1].op = "getattr"
                   /\ g.args[1].args[1].args[1] = NameE(staged)
                   /\ g.args[1].args[1].args[3] = NameE("_Nope")
                   /\ e.args[first + 2 * k]
                        = translate(C16_Kids[k], NameE(g.args[1].name),
                                    res.frames + 1)

\* C18: the text evaluates in short-circuit order.  No index, key or
\* attribute access raises, whatever the candidate: the one exception that
\* leaves an evaluation is the AttributeError of the class test of an
\* InstancePattern's text (no class has __match__).  The text of an
\* AlternativesPattern evaluates its arms left to right up to the first
\* truthy one; the text of a SequencePattern or MappingPattern evaluates
\* nothing of its sub-patterns when the type or length guard fails, and
\* otherwise the sub-patterns' texts left to right up to the first absent
\* key or the first falsy one; either stops at an operand that raises.  The
\* class test of an InstancePattern's text, raising, lets nothing after it
\* be evaluated; the text met by an instance of its class has its
\* conditions in guarded order.  Text that does not parse evaluates nothing
\* at all.
C18_ShortCircuit ==
    op = "translate" =>
        /\ res.exc \in {"", "SyntaxError", "AttributeError"}
        /\ res.exc = "SyntaxError" => Written(res.env) = Written(TargetEnv(val))
        /\ res.exc = "AttributeError" => C18_HasInstance(pat)
        /\ (res.exc # "SyntaxError" /\ pat.tag \in C18_Chains) =>
             IF ~C18_Guard
             THEN /\ res.st = "ok" /\ ~res.truthy
                  /\ Written(res.env) = Written(TargetEnv(val))
             ELSE LET end == C18_Walk(1, Written(TargetEnv(val)))
                  IN  /\ res.exc = end.exc
                      /\ res.truthy = end.truthy
                      /\ Written(res.env) = end.w
        /\ pat.tag = "InstancePattern" =>
             /\ res.exc = "AttributeError"
             /\ res.env = TargetEnv(val)
             /\ IsInstance(val, pat.cls) => C18_InstanceOrder(Translated)

\* C18 witness: a SequencePattern's text met a candidate that is no
\* sequence, or is one of another length, and evaluated to a falsy value
\* without raising.
C18_Witness ==
    /\ op = "translate" /\ pat.tag = "SequencePattern" /\ Len(pat.pats) = 2
    /\ (~IsAbcSequence(val) \/ PyLen(val) < 2)
    /\ res.st = "ok" /\ ~res.truthy

\* The temporaries the text e gives to the InstancePattern nodes it was made
\* from, one per node in the order of the text: each node's text opens with
\* (_tN := cls.__match__(target)).
RECURSIVE C19_Temporaries(_)
RECURSIVE C19_TemporariesOfAll(_)
C19_Temporaries(e) ==
    (IF e.op = "walrus" /\ e.args[1].op = "__match__" THEN <<e.name>> ELSE <<>>)
    \o C19_TemporariesOfAll(e.args)
C19_TemporariesOfAll(es) ==
    IF es = <<>> THEN <<>>
    ELSE C19_Temporaries(Head(es)) \o C19_TemporariesOfAll(Tail(es))

\* Is e the text of an InstancePattern node?
C19_IsInstanceText(e) ==
    /\ e.op = "and" /\ e.args # <<>>
    /\ e.args[1].op = "isnot"
    /\ e.args[1].args[1].op = "walrus"
    /\ e.args[1].args[1].args[1].op = "__match__"

\* The sub-expressions of e, e among them.
RECURSIVE C19_SubExprs(_)
C19_SubExprs(e) ==
    {e} \cup UNION {C19_SubExprs(e.args[i]) : i \in 1..Len(e.args)}

\* C19: within one translate call any two distinct InstancePattern nodes of
\* the tree, nested or siblings, are given different temporaries.
C19_FreshTemporaries ==
    op = "translate" =>
        LET ts == C19_Temporaries(Translated)
        IN  \A i, j \in 1..Len(ts) : i # j => ts[i] # ts[j]

\* The part of C19 the code keeps: an InstancePattern node nested in another
\* is given a temporary other than the outer node's.
C19_NestedFresh ==
    op = "translate" =>
        \A e \in C19_SubExprs(Translated) :
            C19_IsInstanceText(e) =>
                LET inner == C19_TemporariesOfAll(Tail(e.args))
                IN  \A i \in 1..Len(inner) :
                        inner[i] # e.args[1].args[1].name

\* An InstancePattern node nested in another was translated.
C19_NestedSeen ==
    /\ op = "translate"
    /\ \E e \in C19_SubExprs(Translated) :
           C19_IsInstanceText(e) /\ C19_TemporariesOfAll(Tail(e.args)) # <<>>

\* The text of the inner pattern of a WalrusPattern, evaluated on its own
\* with the target bound to val.
C20_Inner ==
    EvalTranslated(translate(pat.pats[1], NameE("t"), res.frames + 1), val,
                   res.frames + 1)

\* C20: a capture emitted by translate is always truthy and always binds.
\* The text of a VariablePattern is truthy for every candidate, the falsy
\* ones included, and writes name := candidate and nothing else; the text of
\* a WalrusPattern is truthy and writes its name := candidate, after what
\* the inner text wrote, exactly when the inner pattern's text is truthy, and
\* otherwise is not truthy and has written only what the inner text wrote
\* (it parses when the inner text does).
C20_CaptureBinds ==
    op = "translate" =>
        /\ pat.tag = "VariablePattern" =>
             /\ res.st = "ok" /\ res.truthy
             /\ Written(res.env) = (pat.name :> val)
        /\ pat.tag = "WalrusPattern" =>
             /\ res.st = C20_Inner.st /\ res.exc = C20_Inner.exc
             /\ res.truthy <=> C20_Inner.truthy
             /\ res.truthy => res.env = (pat.name :> val) @@ C20_Inner.env
             /\ ~res.truthy => res.env = C20_Inner.env

\* C20 witness: the text of a WalrusPattern met a falsy candidate its inner
\* text is truthy on, was truthy and wrote its name.
C20_Witness ==
    /\ op = "translate" /\ pat.tag = "WalrusPattern"
    /\ ~Truthy(val)
    /\ res.truthy /\ res.env[pat.name] = val

\* The text of a WalrusPattern whose inner text does not parse was
\* evaluated.
C20_InnerUnparsed ==
    /\ op = "translate" /\ pat.tag = "WalrusPattern"
    /\ res.exc = "SyntaxError"

(***************************************************************************)
(* Claims about calls on one tree.                                         *)
(***************************************************************************)
\* C21: no operation changes the pattern tree.  After each call of match,
\* bindings (strict or not, returning or raising) and translate on the root
\* or a sub-pattern, the tree is the tree the front-end built; and the set a
\* bindings call returned is not the object a later bindings call returns
\* and still holds, after the later call, the names it was returned with.
C21_TreeUnchanged ==
    op \in {"use1", "use2"} =>
        /\ pat = res.tree
        /\ \A i \in 1..Len(res.calls) :
               res.calls[i].node \in {res.tree} \cup Children(res.tree)
        /\ op = "use2" =>
             LET c1 == res.calls[1]
                 c2 == res.calls[2]
             IN  (c1.op = "bindings" /\ c1.st = "ok") =>
                     /\ res.sets[c1.ref] = c1.names
                     /\ (c2.op = "bindings" /\ c2.st = "ok") => c2.ref # c1.ref

\* C21 witness: bindings returned the set of a sub-pattern, and then the set
\* of the WalrusPattern around it, which has the WalrusPattern's name added
\* to what its inner pattern returned.
C21_Witness ==
    /\ op = "use2"
    /\ res.calls[1].op = "bindings" /\ res.calls[1].st = "ok"
    /\ res.calls[2].op = "bindings" /\ res.calls[2].st = "ok"
    /\ res.calls[2].node = WalrusPattern("y", res.calls[1].node)
    /\ res.calls[1].names = {"x"}
    /\ res.calls[2].names = {"x", "y"}

\* What the caller of a top-level call gets, by the methods as wholes.
C22_Whole ==
    CASE op = "match" ->
           LET m == match(pat, val) IN Outcome(m.st, m.exc, {})
      [] op = "bindings" ->
           LET b == bindings(pat, strict) IN Outcome(b.st, b.exc, b.names)
      [] OTHER -> Outcome("ok", "", {})

\* While a call runs: every frame but the first is of a sub-pattern of the
\* node of the frame that called it, a ConstantPattern or VariablePattern
\* calls nothing and returns, and each top-level call that has returned
\* handed its caller what the methods as wholes give, the second call what
\* the first did.
C22_Recursion ==
    /\ \A i \in 1..Len(res.stack) :
           /\ i = 1 => res.stack[i].node = pat
           /\ i > 1 => res.stack[i].node \in Children(res.stack[i - 1].node)
           /\ res.stack[i].node.tag \in {"ConstantPattern", "VariablePattern"}
                => /\ i = Len(res.stack)
                   /\ StepOf(op, res.stack[i], res.ret).do = "return"
    /\ \A k \in 1..Len(res.outs) : res.outs[k] = C22_Whole

\* C22: match, bindings and translate terminate on every pattern tree.
\* Every call a method makes is on a sub-pattern of its own node, a
\* ConstantPattern or VariablePattern calls nothing, a call that has begun
\* returns (or raises) to its caller, and a second top-level call gives what
\* the first gave: nothing is carried from one to the next.
C22_Terminates ==
    /\ []C22_Recursion
    /\ (res.stack # <<>>) ~> (res.stack = <<>>)

\* C22 witness: match returned a dict for a SequencePattern of two
\* sub-patterns a second time.
C22_Witness ==
    /\ op = "match" /\ pat.tag = "SequencePattern" /\ Len(pat.pats) = 2
    /\ Len(res.outs) = 2 /\ res.outs[2].st = "match"
    /\ res.stack = <<>>

(***************************************************************************)
(* Claims that relate the operations.                                      *)
(***************************************************************************)
\* C23: the static and the dynamic view agree.  Where bindings(strict=True)
\* returns a set for the pattern and match returns a dict for the
\* candidate, the keys of the dict other than "_" are that set.
C23_ViewsAgree ==
    (op = "match" /\ res.st = "match" /\ bindings(pat, TRUE).st = "ok") =>
        (DOMAIN res.b) \ {"_"} = bindings(pat, TRUE).names

\* C23 witness: an AlternativesPattern whose arms bind one and the same
\* name was matched by an arm after the first.
C23_Witness ==
    /\ op = "match" /\ res.st = "match"
    /\ pat.tag = "AlternativesPattern"
    /\ bindings(pat, TRUE).st = "ok"
    /\ bindings(pat, TRUE).names # {}
    /\ match(pat.pats[1], val).st = "none"

\* The temporaries the text e of an InstancePattern node assigns in its own
\* conditions, and those assigned in the texts of its sub-patterns.
RECURSIVE C24_Assigned(_)
C24_Assigned(e) ==
    (IF e.op = "walrus" /\ e.name \in Temporaries THEN {e.name} ELSE {})
    \cup UNION {C24_Assigned(e.args[i]) : i \in 1..Len(e.args)}
C24_IsOwn(a) == a.op = "isnot" /\ a.args[1].op = "walrus"
C24_Own(e) ==
    {e.args[i].args[1].name : i \in {j \in 1..Len(e.args) : C24_IsOwn(e.args[j])}}
C24_Below(e) ==
    UNION {C24_Assigned(e.args[i]) :
             i \in {j \in 1..Len(e.args) : ~C24_IsOwn(e.args[j])}}

\* The stack depth a temporary's name carries.
C24_Depth(name) ==
    CHOOSE d \in 1..(MaxFrames + 9) :
        name \in {pre \o ToString(d) : pre \in {"_t", "_f", "_i"}}

\* C24: in one translate call the temporaries of an InstancePattern node do
\* not collide with those of an InstancePattern node that encloses it,
\* whatever nodes lie between the two: every temporary assigned in the
\* texts of a node's sub-patterns carries a stack depth strictly greater
\* than the node's own, so the names the node's text assigns in its own
\* conditions (the staged instance, the field list, the field) are assigned
\* nowhere in the texts of its sub-patterns, and no evaluation of those
\* texts can change them.
C24_NestedApart ==
    op = "translate" =>
        \A e \in C19_SubExprs(Translated) :
            C19_IsInstanceText(e) =>
                /\ C24_Own(e) \cap C24_Below(e) = {}
                /\ \A own \in C24_Own(e) : \A below \in C24_Below(e) :
                       C24_Depth(below) > C24_Depth(own)

\* C24 witness: an InstancePattern with an InstancePattern two nodes below
\* it was translated, and the inner node's text assigns temporaries.
C24_Witness ==
    /\ op = "translate"
    /\ pat \in NestedInstances
    /\ KidsOf(pat)[1] \in Links(Links(InnerInstances))
    /\ C24_Below(Translated) # {}
    /\ res.exc = "AttributeError"

=============================================================================
